---------------------------- MODULE Spec2Model ----------------------------
(***************************************************************************)
(* A model of the build-time question pipeline of frontend-astro:          *)
(*   - src/utils/dataFetcher.ts  fetchAllQuestions (paginated fetch with   *)
(*     a memoised result list and a memoised in-flight promise);           *)
(*   - src/utils/seoGenerator.ts buildBaseSlug / generateAllSlugs, the     *)
(*     single-question functions generateSlug, generateQuickSlug,          *)
(*     generateTitle and generateKeywords;                                 *)
(*   - src/utils/dataFetcher.ts  buildQuestionIndexes;                     *)
(*   - src/pages/sitemap.xml.ts  the GET handler.                          *)
(*                                                                         *)
(* Question lists of the fetcher are kept run-length encoded: a list is a  *)
(* sequence of runs [lo, hi] of backend positions, adjacent runs merged,   *)
(* so that two lists are equal exactly when their encodings are equal and  *)
(* the page size keeps its source value.                                   *)
(***************************************************************************)
EXTENDS Integers, Sequences, FiniteSets, TLC

VARIABLES
    backendN,        \* how many questions the remote API holds
    questionsCache,  \* dataFetcher.ts:49  [isSet, value]
    fetchPromise,    \* dataFetcher.ts:50  id of the fetch whose promise is stored, or NullPromise
    fetches,         \* the fetchLogic invocations started so far, by id
    calls,           \* the fetchAllQuestions calls made so far, in call order
    batch,           \* the question set of the build, in ascending questionNumber order
    slugInput,       \* the list handed to the latest generateAllSlugs call
    slugOut,         \* the Map returned by the latest generateAllSlugs call  [ran, map]
    slugPrev,        \* the Map returned by the call before it                 [ran, map]
    seoInput,        \* the question handed to a single-question function of seoGenerator.ts
    seo,             \* the latest call of such a function and what it returned  [op, out]
    cachedArray,     \* the elements of the array object questionsCache refers to, in their order
    metaData,        \* sitemap.xml.ts:4  the imported data/meta.json  [courses, topics]
    sitemap,         \* the latest run of the sitemap GET handler  [ran, fetched, indexes, urls]
    laterSeen,       \* what fetchAllQuestions() calls made after that run returned
    handler          \* a run of the GET handler that awaited the fetcher  [phase, call, list, error]

vars == <<backendN, questionsCache, fetchPromise, fetches, calls,
          batch, slugInput, slugOut, slugPrev,
          seoInput, seo, cachedArray, metaData, sitemap, laterSeen, handler>>

fetcherVars == <<backendN, questionsCache, fetchPromise, fetches, calls>>

slugVars == <<batch, slugInput, slugOut, slugPrev>>

seoVars == <<seoInput, seo>>

sitemapVars == <<cachedArray, metaData, sitemap, laterSeen, handler>>

(***************************************************************************)
(* Bounds of the model.                                                    *)
(***************************************************************************)
MaxCalls == 3

MaxFetches == 2

MaxPages == 2

MaxBatch == 3

\* the longest statement handed to generateTitle
MaxStatement == 125

\* the longest question list the sitemap is built from
MaxList == 3

(***************************************************************************)
(* Small helpers.                                                          *)
(***************************************************************************)
Min(a, b) == IF a <= b THEN a ELSE b

Range(s) == {s[i] : i \in 1..Len(s)}

NoMap == [ran |-> FALSE, map |-> <<>>]

\* no single-question function was called yet
NoSeo == [op |-> "none", out |-> <<>>, threw |-> FALSE]

NoQuestion == [questionNumber |-> 0]

NoMeta == [courses |-> <<>>, topics |-> <<>>]

\* the sitemap handler did not run yet
NoSitemap == [ran |-> FALSE, threw |-> FALSE, fetched |-> <<>>, indexes |-> <<>>, urls |-> <<>>]

\* no run of the GET handler awaited the fetcher yet
NoHandler == [phase |-> "idle", call |-> 0, list |-> <<>>, error |-> ""]

\* the state of the single-question functions and of the sitemap handler before any call
SeoIdle == seoInput = NoQuestion /\ seo = NoSeo

SitemapIdle ==
    /\ cachedArray = <<>>
    /\ metaData = NoMeta
    /\ sitemap = NoSitemap
    /\ laterSeen = <<>>
    /\ handler = NoHandler

(***************************************************************************)
(* Run-length encoded lists of questions (Question[] of the fetcher).      *)
(***************************************************************************)
Run(lo, hi) == [lo |-> lo, hi |-> hi]

RECURSIVE ListLen(_)
ListLen(l) == IF l = <<>> THEN 0 ELSE (l[1].hi - l[1].lo + 1) + ListLen(Tail(l))

\* allQuestions.push(x) for the questions of one run
PushRun(l, r) ==
    IF l # <<>> /\ l[Len(l)].hi + 1 = r.lo
    THEN [l EXCEPT ![Len(l)] = Run(l[Len(l)].lo, r.hi)]
    ELSE Append(l, r)

\* allQuestions.push(...data.questions)
RECURSIVE PushAll(_, _)
PushAll(l, m) == IF m = <<>> THEN l ELSE PushAll(PushRun(l, m[1]), Tail(m))

\* allQuestions.slice(0, n), n >= 0
RECURSIVE SliceFront(_, _)
SliceFront(l, n) ==
    IF l = <<>> \/ n <= 0 THEN <<>>
    ELSE LET k == l[1].hi - l[1].lo + 1 IN
         IF k >= n THEN <<Run(l[1].lo, l[1].lo + n - 1)>>
         ELSE <<l[1]>> \o SliceFront(Tail(l), n - k)

\* the first n questions of the backend, in backend order
FirstN(n) == IF n <= 0 THEN <<>> ELSE <<Run(1, n)>>

(***************************************************************************)
(* fetchAllQuestions (dataFetcher.ts:60-143).                              *)
(***************************************************************************)
limit == 1000

NullPromise == 0

\* the optional parameter maxQuestions?: number
NoArg == [given |-> FALSE, n |-> 0]

Arg(n) == [given |-> TRUE, n |-> n]

Truthy_ZeroCaps(m) == m.given

\* JavaScript truthiness of maxQuestions: undefined and 0 are falsy
Truthy(m) == m.given /\ m.n # 0

NoCache == [isSet |-> FALSE, value |-> <<>>]

\* The remote API: page p of a backend holding n questions, pages of lim
BackendPage(n, p, lim) ==
    LET lo == (p - 1) * lim + 1
        hi == Min(p * lim, n)
    IN  IF lo > hi THEN <<>> ELSE <<Run(lo, hi)>>

BackendSizes == {p * limit + r : p \in 0..MaxPages, r \in {0, 1, limit - 1}}

CapValues == {50, limit, limit + 1}

ArgValues == {NoArg, Arg(0)} \cup {Arg(c) : c \in CapValues}

ReturnsCached_Never(m) == FALSE

\* line 62: the memoised list is returned
ReturnsCached(m) == questionsCache.isSet /\ ~Truthy(m)

ReturnsInFlight_Never(m) == FALSE

\* line 68: the memoised in-flight promise is returned
ReturnsInFlight(m) == fetchPromise # NullPromise /\ ~Truthy(m)

Memoises_Always(m) == TRUE

\* lines 125 and 134: the result and the promise are memoised only without a cap
Memoises(m) == ~Truthy(m)

\* line 108: the test limit is reached
CapReached(m, all) == Truthy(m) /\ ListLen(all) >= m.n

HasMore_WhileNonEmpty(data) == ListLen(data) > 0

\* line 113: a full page means there may be more
HasMore(data) == ListLen(data) = limit

FinalQuestions_NoTrim(m, all) == all

\* line 122: trim to the exact limit if one is given
FinalQuestions(m, all) == IF Truthy(m) THEN SliceFront(all, m.n) ELSE all

\* fetchLogic up to its first await: page 1 is requested (lines 73-90)
NewFetch(m) ==
    [maxQuestions |-> m, page |-> 1, allQuestions |-> <<>>, requested |-> <<1>>,
     status |-> "awaiting", result |-> <<>>, error |-> "", catchPending |-> FALSE]

\* One call of fetchAllQuestions(m), up to the point where it returns its promise
fetchAllQuestions(m) ==
    /\ Len(calls) < MaxCalls
    /\ IF ReturnsCached(m)
       THEN \* lines 62-65
            /\ calls' = Append(calls, [maxQuestions |-> m, via |-> "cache", fetch |-> 0,
                                       list |-> questionsCache.value,
                                       cacheSeen |-> questionsCache.isSet,
                                       promiseSeen |-> fetchPromise])
            /\ UNCHANGED <<questionsCache, fetchPromise, fetches>>
       ELSE IF ReturnsInFlight(m)
       THEN \* lines 68-71
            /\ calls' = Append(calls, [maxQuestions |-> m, via |-> "promise",
                                       fetch |-> fetchPromise, list |-> <<>>,
                                       cacheSeen |-> questionsCache.isSet,
                                       promiseSeen |-> fetchPromise])
            /\ UNCHANGED <<questionsCache, fetchPromise, fetches>>
       ELSE \* lines 73-90 and 133-142
            LET id == Len(fetches) + 1 IN
            /\ Len(fetches) < MaxFetches
            /\ fetches' = Append(fetches, NewFetch(m))
            /\ fetchPromise' = IF Memoises(m) THEN id ELSE fetchPromise
            /\ calls' = Append(calls, [maxQuestions |-> m, via |-> "fetchLogic",
                                       fetch |-> id, list |-> <<>>,
                                       cacheSeen |-> questionsCache.isSet,
                                       promiseSeen |-> fetchPromise])
            /\ UNCHANGED questionsCache
    /\ UNCHANGED <<backendN, slugVars, seoVars, sitemapVars>>

\* The loop body after a successful response carrying `data` (lines 103-131)
PageReceived(f, data) ==
    LET fr   == fetches[f]
        m    == fr.maxQuestions
        all  == PushAll(fr.allQuestions, data)
        capHit  == CapReached(m, all)
        hasMore == ~capHit /\ HasMore(data)
        final   == FinalQuestions(m, all)
    IN  IF hasMore
        THEN /\ fetches' = [fetches EXCEPT ![f] =
                               [fr EXCEPT !.allQuestions = all, !.page = fr.page + 1,
                                          !.requested = Append(fr.requested, fr.page + 1)]]
             /\ UNCHANGED <<questionsCache, fetchPromise>>
        ELSE /\ fetches' = [fetches EXCEPT ![f] =
                               [fr EXCEPT !.allQuestions = all,
                                          !.page = IF capHit THEN fr.page ELSE fr.page + 1,
                                          !.status = "fulfilled", !.result = final]]
             /\ questionsCache' = IF Memoises(m) THEN [isSet |-> TRUE, value |-> final]
                                  ELSE questionsCache
             /\ UNCHANGED fetchPromise

\* a retry of the failed page instead of the rethrow
PageFailed_Retry(f, kind) ==
    /\ fetches' = [fetches EXCEPT ![f] =
                      [fetches[f] EXCEPT !.requested = Append(fetches[f].requested,
                                                              fetches[f].page)]]
    /\ UNCHANGED <<questionsCache, fetchPromise>>

\* The loop body after a failed response: the error is rethrown (lines 92-101, 115-118)
PageFailed(f, kind) ==
    /\ fetches' = [fetches EXCEPT ![f] =
                      [fetches[f] EXCEPT !.status = "rejected", !.error = kind,
                                         !.catchPending = Memoises(fetches[f].maxQuestions)]]
    /\ UNCHANGED <<questionsCache, fetchPromise>>

\* The response to the outstanding page request of fetch f arrives
PageResponse(f) ==
    /\ f \in 1..Len(fetches)
    /\ fetches[f].status = "awaiting"
    /\ \E kind \in {"ok", "httpError", "invalidFormat"} :
          IF kind = "ok"
          THEN PageReceived(f, BackendPage(backendN, fetches[f].page, limit))
          ELSE PageFailed(f, kind)
    /\ UNCHANGED <<backendN, calls, slugVars, seoVars, sitemapVars>>

\* a handler that rethrows without the reset
CatchHandler_NoReset(f) ==
    /\ f \in 1..Len(fetches)
    /\ fetches[f].catchPending
    /\ fetches' = [fetches EXCEPT ![f] = [fetches[f] EXCEPT !.catchPending = FALSE]]
    /\ UNCHANGED <<backendN, questionsCache, fetchPromise, calls, slugVars, seoVars, sitemapVars>>

\* The .catch handler of line 135-138 runs (a later microtask than the throw)
CatchHandler(f) ==
    /\ f \in 1..Len(fetches)
    /\ fetches[f].catchPending
    /\ fetchPromise' = NullPromise
    /\ fetches' = [fetches EXCEPT ![f] = [fetches[f] EXCEPT !.catchPending = FALSE]]
    /\ UNCHANGED <<backendN, questionsCache, calls, slugVars, seoVars, sitemapVars>>

Init ==
    /\ backendN \in BackendSizes
    /\ questionsCache = NoCache
    /\ fetchPromise = NullPromise
    /\ fetches = <<>>
    /\ calls = <<>>
    /\ batch = <<>>
    /\ slugInput = <<>>
    /\ slugOut = NoMap
    /\ slugPrev = NoMap
    /\ SeoIdle
    /\ SitemapIdle

Next ==
    \/ \E m \in ArgValues : fetchAllQuestions(m)
    \/ \E f \in 1..MaxFetches : PageResponse(f)
    \/ \E f \in 1..MaxFetches : CatchHandler(f)

Spec == Init /\ [][Next]_vars

(***************************************************************************)
(* Text: a JavaScript string is a sequence of one-character strings.       *)
(***************************************************************************)
LowerSeq == <<"a", "b", "c", "d", "e", "f", "g", "h", "i", "j", "k", "l", "m", "n", "o", "p", "q", "r", "s", "t", "u", "v", "w", "x", "y", "z">>

UpperSeq == <<"A", "B", "C", "D", "E", "F", "G", "H", "I", "J", "K", "L", "M", "N", "O", "P", "Q", "R", "S", "T", "U", "V", "W", "X", "Y", "Z">>

LowerChars == Range(LowerSeq)

UpperChars == Range(UpperSeq)

DigitChars == {"0", "1", "2", "3", "4", "5", "6", "7", "8", "9"}

\* the regular expression class \s
SpaceChars == {" ", "\t", "\n"}

LowerOf == [c \in UpperChars |-> LowerSeq[CHOOSE i \in 1..Len(UpperSeq) : UpperSeq[i] = c]]

ToLowerChar(c) == IF c \in UpperChars THEN LowerOf[c] ELSE c

\* String.prototype.toLowerCase
toLowerCase(s) == [i \in 1..Len(s) |-> ToLowerChar(s[i])]

substring0_Uncut(s, n) == s

\* String.prototype.substring(0, n)
substring0(s, n) == SubSeq(s, 1, Min(n, Len(s)))

\* String.prototype.startsWith
startsWith(s, p) == Len(p) <= Len(s) /\ \A j \in 1..Len(p) : s[j] = p[j]

\* p occurs in s at position i
OccursAt(s, p, i) ==
    /\ i >= 1 /\ i + Len(p) - 1 <= Len(s)
    /\ \A j \in 1..Len(p) : s[i + j - 1] = p[j]

\* String.prototype.includes
includes(s, p) == \E i \in 1..(Len(s) + 1) : OccursAt(s, p, i)

\* String.prototype.trim
RECURSIVE trimStart(_)
trimStart(s) == IF s # <<>> /\ s[1] \in SpaceChars THEN trimStart(Tail(s)) ELSE s

RECURSIVE trimEnd(_)
trimEnd(s) ==
    IF s # <<>> /\ s[Len(s)] \in SpaceChars THEN trimEnd(SubSeq(s, 1, Len(s) - 1)) ELSE s

trim(s) == trimEnd(trimStart(s))

AlnumSpaceChars == LowerChars \cup DigitChars \cup SpaceChars

SlugChars == LowerChars \cup DigitChars \cup {"-"}

\* s.replace(/[^a-z0-9\s]/g, '')
KeepAlnumSpace(s) == SelectSeq(s, LAMBDA c : c \in AlnumSpaceChars)

\* <<1, ..., Len(s)>>
Positions(s) == [i \in 1..Len(s) |-> i]

\* the positions of s at which p holds, ascending
PositionsWhere(s, p(_)) == SelectSeq(Positions(s), p)

\* s.split(/\s+/): the pieces between maximal runs of whitespace; a text that starts
\* (ends) with whitespace has an empty first (last) piece, and "" splits to [""]
splitSpaces(s) ==
    LET first == PositionsWhere(s, LAMBDA i : s[i] \notin SpaceChars /\ (i = 1 \/ s[i - 1] \in SpaceChars))
        last == PositionsWhere(s, LAMBDA i : s[i] \notin SpaceChars /\ (i = Len(s) \/ s[i + 1] \in SpaceChars))
    IN  (IF s = <<>> \/ s[1] \in SpaceChars THEN << <<>> >> ELSE <<>>)
        \o [k \in 1..Len(first) |-> SubSeq(s, first[k], last[k])]
        \o (IF s # <<>> /\ s[Len(s)] \in SpaceChars THEN << <<>> >> ELSE <<>>)

\* Array.prototype.join(sep)
RECURSIVE join(_, _)
join(parts, sep) ==
    IF parts = <<>> THEN <<>>
    ELSE IF Len(parts) = 1 THEN parts[1]
    ELSE parts[1] \o sep \o join(Tail(parts), sep)

\* s.replace(/\s+/g, '-'): every maximal run of whitespace becomes one hyphen
SpacesToHyphen(s) ==
    LET kept == PositionsWhere(s, LAMBDA i : s[i] \notin SpaceChars \/ i = 1 \/ s[i - 1] \notin SpaceChars)
    IN  [k \in 1..Len(kept) |-> IF s[kept[k]] \in SpaceChars THEN "-" ELSE s[kept[k]]]

InvalidToHyphen_Keep(s) == s

\* s.replace(/[^a-z0-9\-]/g, '-')
InvalidToHyphen(s) ==
    [i \in 1..Len(s) |-> IF s[i] \in SlugChars THEN s[i] ELSE "-"]

\* s.replace(/-+/g, '-'): every maximal run of hyphens becomes one hyphen
CollapseHyphens(s) ==
    LET kept == PositionsWhere(s, LAMBDA i : s[i] # "-" \/ i = 1 \/ s[i - 1] # "-")
    IN  [k \in 1..Len(kept) |-> s[kept[k]]]

\* s.replace(/^-|-$/g, '')
StripEdgeHyphen(s) ==
    LET a == IF s # <<>> /\ s[1] = "-" THEN Tail(s) ELSE s
    IN  IF a # <<>> /\ a[Len(a)] = "-" THEN SubSeq(a, 1, Len(a) - 1) ELSE a

\* `${n}` for a non-negative integer n
RECURSIVE numToString(_)
numToString(n) ==
    LET d == <<"0", "1", "2", "3", "4", "5", "6", "7", "8", "9">>[(n % 10) + 1]
    IN  IF n < 10 THEN <<d>> ELSE Append(numToString(n \div 10), d)

(***************************************************************************)
(* seoGenerator.ts: isImageUrl, buildBaseSlug, generateAllSlugs.           *)
(***************************************************************************)
ImageExtensions == {<<"j", "p", "g">>, <<"j", "p", "e", "g">>, <<"p", "n", "g">>, <<"g", "i", "f">>, <<"w", "e", "b", "p">>, <<"s", "v", "g">>, <<"b", "m", "p">>}

\* /\.(jpg|jpeg|png|gif|webp|svg|bmp)(\?|$)/i.test(lower)
HasImageExtension(lower) ==
    \E i \in 1..Len(lower), e \in ImageExtensions :
        /\ OccursAt(lower, <<".">> \o e, i)
        /\ \/ i + Len(e) = Len(lower)
           \/ (i + Len(e) < Len(lower) /\ lower[i + Len(e) + 1] = "?")

isImageUrl(text) ==
    LET lower == toLowerCase(text) IN
    \/ startsWith(lower, <<"h", "t", "t", "p", ":", "/", "/">>) \/ startsWith(lower, <<"h", "t", "t", "p", "s", ":", "/", "/">>)
    \/ HasImageExtension(lower)
    \/ includes(lower, <<"c", "l", "o", "u", "d", "i", "n", "a", "r", "y", ".", "c", "o", "m">>) \/ includes(lower, <<"r", "e", "s", ".", "c", "l", "o", "u", "d", "i", "n", "a", "r", "y", ".", "c", "o", "m">>)

QuestionFallback_QPrefix(q) == <<"q">> \o numToString(q.questionNumber)

\* `question-${q.questionNumber}`
QuestionFallback(q) == <<"q", "u", "e", "s", "t", "i", "o", "n", "-">> \o numToString(q.questionNumber)

buildBaseSlug(q) ==
    IF q.statement = <<>> \/ q.exam = <<>> \/ q.topic = <<>> THEN QuestionFallback(q)
    ELSE
    LET statementText == IF isImageUrl(q.statement) THEN <<"v", "i", "s", "u", "a", "l", "-", "q", "u", "e", "s", "t", "i", "o", "n">> ELSE q.statement
        words == splitSpaces(trim(KeepAlnumSpace(toLowerCase(statementText))))
        statementSlug == substring0(join(SubSeq(words, 1, Min(8, Len(words))), <<"-">>), 50)
        examSlug == substring0(SpacesToHyphen(toLowerCase(q.exam)), 30)
        subExamSlug == IF q.subExam # <<>> /\ q.subExam # <<"G", "e", "n", "e", "r", "a", "l">>
                       THEN substring0(SpacesToHyphen(toLowerCase(q.subExam)), 30)
                       ELSE <<>>
        topicSlug == substring0(SpacesToHyphen(KeepAlnumSpace(toLowerCase(q.topic))), 30)
        parts == <<statementSlug, examSlug>>
                 \o (IF subExamSlug # <<>> THEN <<subExamSlug>> ELSE <<>>)
                 \o (IF topicSlug # <<>> THEN <<topicSlug>> ELSE <<>>)
        joined == join(parts, <<"-">>)
        capped == IF Len(joined) > 200
                  THEN substring0(joined, 180) \o <<"-", "q">> \o numToString(q.questionNumber)
                  ELSE joined
        slug == StripEdgeHyphen(CollapseHyphens(InvalidToHyphen(capped)))
    IN  IF slug # <<>> THEN slug ELSE QuestionFallback(q)

\* Map.prototype.set
MapSet(map, k, v) == (k :> v) @@ map

SortNumbers_Unsorted(s) == s

\* [...questionNumbers].sort((a, b) => a - b)
RECURSIVE SortNumbers(_)
SortNumbers(s) ==
    IF s = <<>> THEN <<>>
    ELSE LET rest == SortNumbers(Tail(s))
             lo == SelectSeq(rest, LAMBDA x : x <= s[1])
             hi == SelectSeq(rest, LAMBDA x : x > s[1])
         IN  lo \o <<s[1]>> \o hi

\* Array.prototype.indexOf (0-based, -1 when absent)
indexOf(s, x) ==
    IF \E i \in 1..Len(s) : s[i] = x
    THEN (CHOOSE i \in 1..Len(s) : s[i] = x /\ \A j \in 1..(i - 1) : s[j] # x) - 1
    ELSE -1

\* lines 75-81: base slug -> the question numbers that have it, in input order
RECURSIVE FirstPass(_, _)
FirstPass(questions, baseSlugCounts) ==
    IF questions = <<>> THEN baseSlugCounts
    ELSE LET baseSlug == buildBaseSlug(questions[1])
             had == IF baseSlug \in DOMAIN baseSlugCounts THEN baseSlugCounts[baseSlug] ELSE <<>>
         IN  FirstPass(Tail(questions),
                       MapSet(baseSlugCounts, baseSlug,
                              Append(had, questions[1].questionNumber)))

SuffixedSlug_ZeroBased(baseSlug, index) == baseSlug \o <<"-">> \o numToString(index - 1)

\* line 95: `${baseSlug}-${index}`
SuffixedSlug(baseSlug, index) == baseSlug \o <<"-">> \o numToString(index)

\* lines 84-97
RECURSIVE SecondPass(_, _, _)
SecondPass(questions, baseSlugCounts, slugMap) ==
    IF questions = <<>> THEN slugMap
    ELSE LET question == questions[1]
             baseSlug == buildBaseSlug(question)
             questionNumbers == baseSlugCounts[baseSlug]
             sortedNumbers == SortNumbers(questionNumbers)
             index == indexOf(sortedNumbers, question.questionNumber) + 1
         IN  SecondPass(Tail(questions), baseSlugCounts,
                        MapSet(slugMap, question.questionNumber,
                               IF Len(questionNumbers) = 1 THEN baseSlug
                               ELSE SuffixedSlug(baseSlug, index)))

generateAllSlugs(questions) == SecondPass(questions, FirstPass(questions, <<>>), <<>>)

(***************************************************************************)
(* The question sets the slug generator is run on.                         *)
(***************************************************************************)
Content(statement, exam, subExam, topic) ==
    [statement |-> statement, exam |-> exam, subExam |-> subExam, topic |-> topic]

ContentPool ==
    { Content(<<"F", "i", "n", "d", " ", "x">>, <<"C", "A", "T">>, <<>>, <<"A", "l", "g", "e", "b", "r", "a">>),
      Content(<<"f", "i", "n", "d", " ", " ", "x", "?">>, <<"C", "A", "T">>, <<"G", "e", "n", "e", "r", "a", "l">>, <<"A", "l", "g", "e", "b", "r", "a">>),
      Content(<<"F", "i", "n", "d", " ", "x">>, <<"C", "A", "T">>, <<>>, <<"A", "l", "g", "e", "b", "r", "a", " ", "1">>),
      Content(<<"F", "i", "n", "d", " ", "x">>, <<"C", "A", "T">>, <<"T", "i", "e", "r", " ", "1">>, <<"A", "l", "g", "e", "b", "r", "a">>),
      Content(<<"h", "t", "t", "p", ":", "/", "/", "i", ".", "p", "n", "g">>, <<"C", "A", "T">>, <<>>, <<"A", "l", "g", "e", "b", "r", "a">>),
      Content(<<>>, <<"C", "A", "T">>, <<>>, <<"A", "l", "g", "e", "b", "r", "a">>) }

QuestionNumbers == {1, 2, 3, 10}

Question(n, c) ==
    [questionNumber |-> n, statement |-> c.statement, exam |-> c.exam,
     subExam |-> c.subExam, topic |-> c.topic]

\* the questions of f (questionNumber -> content) in ascending questionNumber order
RECURSIVE Ascending(_, _)
Ascending(f, nums) ==
    IF nums = {} THEN <<>>
    ELSE LET n == CHOOSE x \in nums : \A y \in nums : x <= y
         IN  <<Question(n, f[n])>> \o Ascending(f, nums \ {n})

Batches ==
    UNION { { Ascending(f, S) : f \in [S -> ContentPool] } :
            S \in {X \in SUBSET QuestionNumbers : Cardinality(X) <= MaxBatch} }

Permutation(qs, p) == [i \in 1..Len(qs) |-> qs[p[i]]]

Orderings(qs) == { Permutation(qs, p) : p \in Permutations(1..Len(qs)) }

\* one call generateAllSlugs(questions)
GenerateAllSlugs(questions) ==
    /\ slugInput' = questions
    /\ slugOut' = [ran |-> TRUE, map |-> generateAllSlugs(questions)]
    /\ slugPrev' = slugOut
    /\ UNCHANGED <<batch, fetcherVars, seoVars, sitemapVars>>

\* the first build computes the slugs of the question list as fetched
Build ==
    /\ ~slugOut.ran
    /\ GenerateAllSlugs(batch)

\* a rebuild receives the same question set, in any order
Rebuild ==
    /\ slugOut.ran /\ ~slugPrev.ran
    /\ \E questions \in Orderings(batch) : GenerateAllSlugs(questions)

InitSlugs ==
    /\ backendN = 0
    /\ questionsCache = NoCache
    /\ fetchPromise = NullPromise
    /\ fetches = <<>>
    /\ calls = <<>>
    /\ batch \in Batches
    /\ slugInput = <<>>
    /\ slugOut = NoMap
    /\ slugPrev = NoMap
    /\ SeoIdle
    /\ SitemapIdle

NextSlugs == Build \/ Rebuild

SpecSlugs == InitSlugs /\ [][NextSlugs]_vars

(***************************************************************************)
(* Dates: new Date(text) is either an instant or an Invalid Date.  A       *)
(* question's updatedAt is kept as the date its text parses to.            *)
(***************************************************************************)
DateAt(t) == [valid |-> TRUE, time |-> t]

InvalidDate == [valid |-> FALSE, time |-> 0]

(***************************************************************************)
(* seoGenerator.ts: the slug of a single question.                         *)
(***************************************************************************)
\* the optional argument slugMap of generateSlug
NoSlugMap == [given |-> FALSE, map |-> <<>>]

\* lines 105-116
generateSlug(q, slugMap) ==
    IF slugMap.given
    THEN IF q.questionNumber \in DOMAIN slugMap.map /\ slugMap.map[q.questionNumber] # <<>>
         THEN slugMap.map[q.questionNumber]
         ELSE QuestionFallback(q)
    ELSE IF q.statement = <<>> \/ q.exam = <<>> \/ q.topic = <<>> THEN QuestionFallback(q)
    ELSE buildBaseSlug(q)

\* lines 188-193
generateQuickSlug(q) ==
    IF q.statement = <<>> \/ q.exam = <<>> \/ q.topic = <<>> THEN QuestionFallback(q)
    ELSE buildBaseSlug(q)

(***************************************************************************)
(* seoGenerator.ts: generateTitle.                                         *)
(***************************************************************************)
\* `${question.<field>}` in a template literal: an absent field prints as undefined
Interpolate(q, field) ==
    IF field \in q.absent THEN <<"u", "n", "d", "e", "f", "i", "n", "e", "d">> ELSE q[field]

\* String.prototype.lastIndexOf (0-based, -1 when absent)
lastIndexOf(s, c) ==
    IF \E i \in 1..Len(s) : s[i] = c
    THEN (CHOOSE i \in 1..Len(s) : s[i] = c /\ \A j \in (i + 1)..Len(s) : s[j] # c) - 1
    ELSE -1

\* lines 199-201
TitleStatementText(q) ==
    IF ~startsWith(q.statement, <<"h", "t", "t", "p">>) THEN q.statement
    ELSE Interpolate(q, "topic") \o <<" ", "Q", "u", "e", "s", "t", "i", "o", "n">>

\* lines 203-207: ` | ${examPart} | ${topicPart}`
TitleSuffix(q) ==
    <<" ", "|", " ">> \o Interpolate(q, "exam") \o <<" ">> \o Interpolate(q, "difficulty")
        \o <<" ", "|", " ">> \o Interpolate(q, "topic")

\* line 208
MaxStatementLength(q) == 120 - Len(TitleSuffix(q)) - 4

\* line 213
TooLong(q, statementText) == Len(statementText) > MaxStatementLength(q)

\* lines 214-219
TruncatedStatement(q, statementText) ==
    LET cut == substring0(statementText, MaxStatementLength(q))
        lastSpace == lastIndexOf(cut, " ")
    IN  (IF lastSpace > 0 THEN substring0(cut, lastSpace) ELSE cut) \o <<".", ".", ".">>

HardCap_None(s) == s

\* line 222: .substring(0, 120)
HardCap(s) == substring0(s, 120)

\* lines 198-223
generateTitle(q) ==
    LET statementText == TitleStatementText(q)
        truncatedStatement == IF TooLong(q, statementText)
                              THEN TruncatedStatement(q, statementText)
                              ELSE statementText
    IN  HardCap(truncatedStatement \o TitleSuffix(q))

(***************************************************************************)
(* seoGenerator.ts: generateKeywords.  EXAM_KEYWORD_MAP is an object       *)
(* literal, so a key it does not own is looked up on Object.prototype.     *)
(***************************************************************************)
JsUndefined == [kind |-> "undefined"]

JsFunction == [kind |-> "function"]

JsArray(items) == [kind |-> "array", items |-> items]

\* an object literal with the own properties props (key text -> value)
JsObject(props) == [kind |-> "object", props |-> props]

\* methods every object literal inherits from Object.prototype
ObjectPrototypeFunctions ==
    { <<"c", "o", "n", "s", "t", "r", "u", "c", "t", "o", "r">>,
      <<"t", "o", "S", "t", "r", "i", "n", "g">>,
      <<"v", "a", "l", "u", "e", "O", "f">>,
      <<"h", "a", "s", "O", "w", "n", "P", "r", "o", "p", "e", "r", "t", "y">>,
      <<"i", "s", "P", "r", "o", "t", "o", "t", "y", "p", "e", "O", "f">>,
      <<"p", "r", "o", "p", "e", "r", "t", "y", "I", "s", "E", "n", "u", "m", "e", "r", "a", "b", "l", "e">>,
      <<"t", "o", "L", "o", "c", "a", "l", "e", "S", "t", "r", "i", "n", "g">> }

ObjectPrototype == JsObject(<<>>)

\* obj[key] for an object literal
GetProperty(obj, key) ==
    IF key \in DOMAIN obj.props THEN obj.props[key]
    ELSE IF key \in ObjectPrototypeFunctions THEN JsFunction
    ELSE IF key = <<"_", "_", "p", "r", "o", "t", "o", "_", "_">> THEN ObjectPrototype
    ELSE JsUndefined

\* lines 12-29
EXAM_KEYWORD_MAP ==
    JsObject(
        (<<"C", "A", "T">> :> JsArray(<<<<"c", "a", "t", " ", "p", "y", "q">>,
                <<"c", "a", "t", " ", "p", "r", "e", "v", "i", "o", "u", "s", " ", "y", "e", "a", "r", " ", "q", "u", "e", "s", "t", "i", "o", "n", "s">>,
                <<"c", "a", "t", " ", "q", "u", "a", "n", "t", " ", "q", "u", "e", "s", "t", "i", "o", "n", "s">>,
                <<"c", "a", "t", " ", "a", "p", "t", "i", "t", "u", "d", "e", " ", "p", "r", "a", "c", "t", "i", "c", "e">>,
                <<"c", "a", "t", " ", "e", "x", "a", "m", " ", "p", "r", "e", "p", "a", "r", "a", "t", "i", "o", "n">>>>))
     @@ (<<"P", "l", "a", "c", "e", "m", "e", "n", "t", "s">> :> JsArray(<<<<"p", "l", "a", "c", "e", "m", "e", "n", "t", " ", "a", "p", "t", "i", "t", "u", "d", "e", " ", "q", "u", "e", "s", "t", "i", "o", "n", "s">>,
                <<"c", "a", "m", "p", "u", "s", " ", "p", "l", "a", "c", "e", "m", "e", "n", "t", " ", "p", "r", "a", "c", "t", "i", "c", "e">>,
                <<"p", "l", "a", "c", "e", "m", "e", "n", "t", " ", "p", "a", "p", "e", "r", "s">>,
                <<"a", "p", "t", "i", "t", "u", "d", "e", " ", "f", "o", "r", " ", "p", "l", "a", "c", "e", "m", "e", "n", "t", "s">>>>))
     @@ (<<"S", "S", "C">> :> JsObject(
            (<<"C", "G", "L", " ", "T", "i", "e", "r", " ", "1">> :> JsArray(<<<<"s", "s", "c", " ", "c", "g", "l", " ", "p", "y", "q">>,
                    <<"s", "s", "c", " ", "c", "g", "l", " ", "t", "i", "e", "r", " ", "1", " ", "q", "u", "e", "s", "t", "i", "o", "n", "s">>>>))
         @@ (<<"C", "G", "L", " ", "T", "i", "e", "r", " ", "2">> :> JsArray(<<<<"s", "s", "c", " ", "c", "g", "l", " ", "t", "i", "e", "r", " ", "2", " ", "q", "u", "e", "s", "t", "i", "o", "n", "s">>,
                    <<"s", "s", "c", " ", "c", "g", "l", " ", "t", "i", "e", "r", " ", "2", " ", "p", "y", "q">>>>))
         @@ (<<"C", "H", "S", "L">> :> JsArray(<<<<"s", "s", "c", " ", "c", "h", "s", "l", " ", "q", "u", "e", "s", "t", "i", "o", "n", "s">>,
                    <<"s", "s", "c", " ", "c", "h", "s", "l", " ", "p", "y", "q">>>>))
         @@ (<<"_", "d", "e", "f", "a", "u", "l", "t">> :> JsArray(<<<<"s", "s", "c", " ", "a", "p", "t", "i", "t", "u", "d", "e", " ", "q", "u", "e", "s", "t", "i", "o", "n", "s">>,
                    <<"s", "s", "c", " ", "p", "r", "e", "v", "i", "o", "u", "s", " ", "y", "e", "a", "r", " ", "p", "a", "p", "e", "r", "s">>>>))))
     @@ (<<"B", "a", "n", "k", "i", "n", "g">> :> JsObject(
            (<<"I", "B", "P", "S", " ", "P", "O">> :> JsArray(<<<<"i", "b", "p", "s", " ", "p", "o", " ", "q", "u", "e", "s", "t", "i", "o", "n", "s">>,
                    <<"i", "b", "p", "s", " ", "p", "o", " ", "p", "y", "q">>>>))
         @@ (<<"S", "B", "I", " ", "P", "O">> :> JsArray(<<<<"s", "b", "i", " ", "p", "o", " ", "q", "u", "e", "s", "t", "i", "o", "n", "s">>,
                    <<"s", "b", "i", " ", "p", "o", " ", "q", "u", "a", "n", "t">>>>))
         @@ (<<"R", "B", "I", " ", "G", "r", "a", "d", "e", " ", "B">> :> JsArray(<<<<"r", "b", "i", " ", "g", "r", "a", "d", "e", " ", "b", " ", "q", "u", "e", "s", "t", "i", "o", "n", "s">>>>))
         @@ (<<"_", "d", "e", "f", "a", "u", "l", "t">> :> JsArray(<<<<"b", "a", "n", "k", " ", "e", "x", "a", "m", " ", "a", "p", "t", "i", "t", "u", "d", "e">>,
                    <<"b", "a", "n", "k", " ", "p", "y", "q">>>>))))
     @@ (<<"R", "a", "i", "l", "w", "a", "y", "s">> :> JsArray(<<<<"r", "a", "i", "l", "w", "a", "y", " ", "e", "x", "a", "m", " ", "a", "p", "t", "i", "t", "u", "d", "e">>,
                <<"r", "r", "b", " ", "n", "t", "p", "c", " ", "q", "u", "e", "s", "t", "i", "o", "n", "s">>,
                <<"r", "r", "b", " ", "p", "y", "q">>>>))
     @@ (<<"C", "U", "E", "T">> :> JsArray(<<<<"c", "u", "e", "t", " ", "g", "a", "t", " ", "q", "u", "e", "s", "t", "i", "o", "n", "s">>,
                <<"c", "u", "e", "t", " ", "a", "p", "t", "i", "t", "u", "d", "e", " ", "p", "r", "a", "c", "t", "i", "c", "e">>,
                <<"c", "u", "e", "t", " ", "p", "y", "q">>>>)))

\* lines 31-34
UNIVERSAL_KEYWORDS ==
    <<<<"a", "p", "t", "i", "t", "u", "d", "e", " ", "q", "u", "e", "s", "t", "i", "o", "n", "s">>,
      <<"a", "p", "t", "i", "t", "u", "d", "e", " ", "p", "r", "a", "c", "t", "i", "c", "e">>,
      <<"p", "r", "e", "v", "i", "o", "u", "s", " ", "y", "e", "a", "r", " ", "q", "u", "e", "s", "t", "i", "o", "n", "s">>,
      <<"q", "u", "a", "n", "t", "i", "t", "a", "t", "i", "v", "e", " ", "a", "p", "t", "i", "t", "u", "d", "e">>,
      <<"l", "o", "g", "i", "c", "a", "l", " ", "r", "e", "a", "s", "o", "n", "i", "n", "g", " ", "q", "u", "e", "s", "t", "i", "o", "n", "s">>,
      <<"c", "o", "m", "p", "e", "t", "i", "t", "i", "v", "e", " ", "e", "x", "a", "m", " ", "q", "u", "e", "s", "t", "i", "o", "n", "s">>,
      <<"p", "y", "q">>>>

\* lines 36-43
getExamSpecificKeywords(exam, subExam) ==
    LET examData == GetProperty(EXAM_KEYWORD_MAP, exam)
        bySubExam == GetProperty(examData, IF subExam # <<>> THEN subExam ELSE <<"_", "d", "e", "f", "a", "u", "l", "t">>)
        byDefault == GetProperty(examData, <<"_", "d", "e", "f", "a", "u", "l", "t">>)
    IN  IF examData.kind = "undefined" THEN JsArray(<<>>)
        ELSE IF examData.kind = "object"
             THEN IF bySubExam.kind # "undefined" THEN bySubExam
                  ELSE IF byDefault.kind # "undefined" THEN byDefault
                  ELSE JsArray(<<>>)
        ELSE examData

\* lines 51-60: the lowercased fields and tags, falsy entries dropped
HierarchicalKeywords(q) ==
    SelectSeq(<<toLowerCase(q.exam), toLowerCase(q.subExam), toLowerCase(q.section),
                toLowerCase(q.category), toLowerCase(q.topic), toLowerCase(q.type),
                toLowerCase(q.difficulty)>>
              \o [i \in 1..Len(q.tags) |-> toLowerCase(q.tags[i])],
              LAMBDA k : k # <<>>)

\* [...new Set(s)]: the first occurrence of every entry, in order
Dedup(s) ==
    LET kept == PositionsWhere(s, LAMBDA i : \A j \in 1..(i - 1) : s[j] # s[i])
    IN  [k \in 1..Len(kept) |-> s[kept[k]]]

\* lines 48-64; spreading a value that is not an array throws a TypeError
generateKeywords(q) ==
    LET examKeywords == IF q.exam # <<>> THEN getExamSpecificKeywords(q.exam, q.subExam)
                        ELSE JsArray(<<>>)
    IN  IF examKeywords.kind # "array" THEN [threw |-> TRUE, out |-> <<>>]
        ELSE [threw |-> FALSE,
              out |-> Dedup(HierarchicalKeywords(q) \o examKeywords.items \o UNIVERSAL_KEYWORDS)]

(***************************************************************************)
(* seoGenerator.ts: generateDescription and generateSchema.  An answer     *)
(* option is [type, content]; type is the empty text when the option has   *)
(* none, content is a JavaScript value.                                    *)
(***************************************************************************)
JsString(text) == [kind |-> "string", text |-> text]

JsNumber == [kind |-> "number"]

\* lines 199, 228 and 257: typeof statement === 'string' && !statement.startsWith('http')
StatementIsText(q) ==
    "statement" \notin q.absent /\ ~startsWith(q.statement, <<"h", "t", "t", "p">>)

\* lines 228-232
DescriptionLead(q) ==
    IF StatementIsText(q) THEN q.statement \o <<" ">>
    ELSE Interpolate(q, "topic") \o <<" ", "v", "i", "s", "u", "a", "l", " ", "q", "u", "e", "s", "t", "i", "o", "n", ".", " ">>

\* lines 236-238: a text option whose content is a non-empty string that is no URL
IsTextOption(opt) ==
    /\ opt.type = <<>> \/ opt.type = <<"t", "e", "x", "t">>
    /\ opt.content.kind = "string"
    /\ ~startsWith(opt.content.text, <<"h", "t", "t", "p">>)
    /\ opt.content.text # <<>>

SliceFive_All(options) == options

\* line 239: .slice(0, 5)
SliceFive(options) == SubSeq(options, 1, Min(5, Len(options)))

\* lines 235-239
TextOptions(q) == SliceFive(SelectSeq(q.options, IsTextOption))

\* lines 242-244: String.fromCharCode(65 + i) + ') ' + content, joined by ' '
OptionsText(textOptions) ==
    join([i \in 1..Len(textOptions) |->
             <<UpperSeq[i], ")", " ">> \o textOptions[i].content.text], <<" ">>)

HasOptionList(q) ==
    /\ q.type \in {<<"M", "C", "Q">>, <<"M", "u", "l", "t", "i", "p", "l", "e", " ", "C", "o", "r", "r", "e", "c", "t">>}
    /\ Len(q.options) > 0

\* lines 234-249
DescriptionAnswerPart(q) ==
    IF HasOptionList(q)
    THEN IF Len(TextOptions(q)) > 0
         THEN <<"O", "p", "t", "i", "o", "n", "s", ":", " ">> \o OptionsText(TextOptions(q)) \o <<".", " ">>
         ELSE <<>>
    ELSE IF q.type = <<"I", "n", "t", "e", "g", "e", "r">> THEN <<"A", "n", "s", "w", "e", "r", " ", "t", "y", "p", "e", ":", " ", "I", "n", "t", "e", "g", "e", "r", ".", " ">>
    ELSE <<>>

\* line 251
DescriptionContext(q) ==
    Interpolate(q, "exam") \o <<" ">> \o Interpolate(q, "difficulty") \o <<" ">>
        \o Interpolate(q, "topic") \o <<" ", "q", "u", "e", "s", "t", "i", "o", "n", ".", " ">>

\* line 252
CallToAction == <<"S", "o", "l", "v", "e", " ", "a", "n", "d", " ", "g", "e", "t", " ", "s", "t", "e", "p", "-", "b", "y", "-", "s", "t", "e", "p", " ", "s", "o", "l", "u", "t", "i", "o", "n", ".">>

\* lines 225-254
generateDescription(q) ==
    DescriptionLead(q) \o DescriptionAnswerPart(q) \o DescriptionContext(q) \o CallToAction

\* lines 257-259
SchemaQuestionText(q) ==
    IF StatementIsText(q) THEN substring0(q.statement, 100)
    ELSE Interpolate(q, "topic") \o <<" ", "Q", "u", "e", "s", "t", "i", "o", "n">>

\* lines 256-270
generateSchema(q) ==
    [context |-> <<"h", "t", "t", "p", "s", ":", "/", "/", "s", "c", "h", "e", "m", "a", ".", "o", "r", "g">>,
     type |-> <<"Q", "u", "e", "s", "t", "i", "o", "n">>,
     name |-> SchemaQuestionText(q),
     text |-> SchemaQuestionText(q),
     eduQuestionType |-> IF q.type = <<"I", "n", "t", "e", "g", "e", "r">> THEN <<"I", "n", "t", "e", "g", "e", "r", " ", "a", "n", "s", "w", "e", "r">> ELSE <<"M", "u", "l", "t", "i", "p", "l", "e", " ", "c", "h", "o", "i", "c", "e">>,
     educationalLevel |-> q.difficulty,
     about |-> [type |-> <<"T", "h", "i", "n", "g">>, name |-> q.topic]]

(***************************************************************************)
(* The questions the single-question functions are called on.  An absent   *)
(* optional field and an empty one are both the empty text: the code tests *)
(* these fields for truthiness only.                                       *)
(***************************************************************************)
FullQuestion(n, statement, exam, subExam, topic, difficulty, tags) ==
    [questionNumber |-> n, statement |-> statement, exam |-> exam, subExam |-> subExam,
     section |-> <<>>, category |-> <<>>, topic |-> topic, type |-> <<"M", "C", "Q">>,
     difficulty |-> difficulty, tags |-> tags, options |-> <<>>, absent |-> {},
     updatedAt |-> DateAt(1)]

\* q with the optional fields named in fields absent (undefined)
Without(q, fields) ==
    [f \in DOMAIN q |-> IF f = "absent" THEN fields ELSE IF f \in fields THEN <<>> ELSE q[f]]

SlugStatements ==
    { <<"F", "i", "n", "d", " ", "x">>,
      <<" ", " ", "W", "h", "a", "t", " ", "i", "s", " ", "2", "+", "2", "?", " ", " ">>,
      <<"-", "-", "-">>,
      <<"a", " ", "-", " ", "b">>,
      <<"x", "\t", "y">>,
      <<"h", "t", "t", "p", ":", "/", "/", "i", ".", "p", "n", "g">>,
      <<"H", "T", "T", "P", "S", ":", "/", "/", "C", "D", "N", ".", "X", "/", "Y">>,
      <<"f", "i", "g", ".", "J", "P", "G", "?", "w", "=", "1">>,
      <<"s", "e", "e", " ", "r", "e", "s", ".", "c", "l", "o", "u", "d", "i", "n", "a", "r", "y", ".", "c", "o", "m", "/", "x">>,
      <<"f", "i", "g", ".", "p", "n", "g", "s">>,
      <<"T", "h", "e", " ", "q", "u", "i", "c", "k", " ", "b", "r", "o", "w", "n", " ", "f", "o", "x", " ", "j", "u", "m", "p", "s", " ", "o", "v", "e", "r", " ", "t", "h", "e", " ", "l", "a", "z", "y", " ", "d", "o", "g", " ", "a", "g", "a", "i", "n", " ", "a", "n", "d", " ", "a", "g", "a", "i", "n">>,
      <<"a", "b", "c", "d", "e", "f", "g", "h", "i", " ", "a", "b", "c", "d", "e", "f", "g", "h", "i", " ", "a", "b", "c", "d", "e", "f", "g", "h", "i", " ", "a", "b", "c", "d", "e", "f", "g", "h", "i", " ", "a", "b", "c", "d", "e", "f", "g", "h", "i", " ", "a", "b", "c", "d", "e", "f", "g", "h", "i">>,
      <<>> }

SlugExams ==
    { <<"C", "A", "T">>,
      <<"S", "S", "C">>,
      <<>>,
      <<"C", "@", "T", "!">>,
      <<"-", " ", "-">>,
      <<"S", "t", "a", "f", "f", " ", "S", "e", "l", "e", "c", "t", "i", "o", "n", " ", "C", "o", "m", "m", "i", "s", "s", "i", "o", "n", " ", "C", "G", " ", "L", "e", "v", "e", "l">> }

SlugSubExams ==
    { <<>>,
      <<"G", "e", "n", "e", "r", "a", "l">>,
      <<"C", "G", "L", " ", "T", "i", "e", "r", " ", "1">>,
      <<"-", "-">> }

SlugTopics ==
    { <<"A", "l", "g", "e", "b", "r", "a">>,
      <<>>,
      <<"!", "!", "!">>,
      <<"T", "i", "m", "e", " ", "&", " ", "W", "o", "r", "k">>,
      <<"P", "e", "r", "m", "u", "t", "a", "t", "i", "o", "n", "s", " ", "a", "n", "d", " ", "C", "o", "m", "b", "i", "n", "a", "t", "i", "o", "n", "s", " ", "A", "d", "v", "a", "n", "c", "e", "d">> }

SlugNumbers == {0, 7, 120}

SlugQuestions ==
    { FullQuestion(n, s, e, se, t, <<"E", "a", "s", "y">>, <<>>) :
        n \in SlugNumbers, s \in SlugStatements, e \in SlugExams, se \in SlugSubExams, t \in SlugTopics }

\* a text of n characters with a space at every gap-th position (none when gap > n)
TitleText(n, gap) == [i \in 1..n |-> IF i % gap = 0 THEN " " ELSE "a"]

TitleLengths == {0, 1, 50} \cup 88..MaxStatement

\* texts with spaces, texts without, texts whose only space is the first character,
\* and two image references
TitleStatements ==
    { TitleText(n, 6) : n \in TitleLengths }
    \cup { TitleText(n, n + 1) : n \in TitleLengths }
    \cup { <<" ">> \o TitleText(n, n + 1) : n \in TitleLengths }
    \cup { <<"h", "t", "t", "p", ":", "/", "/", "i", ".", "p", "n", "g">>, <<"H", "T", "T", "P", ":", "/", "/", "I", ".", "P", "N", "G">> }

TitleQuestions ==
    LET plain(s) == FullQuestion(7, s, <<"C", "A", "T">>, <<>>, <<"A", "l", "g", "e", "b", "r", "a">>, <<"E", "a", "s", "y">>, <<>>)
    IN  { plain(s) : s \in TitleStatements }
        \cup { Without(plain(s), {"difficulty"}) : s \in TitleStatements }
        \cup { [plain(s) EXCEPT !.topic = TitleText(120, 6)] : s \in TitleStatements }

KeywordExams ==
    { <<>>,
      <<"C", "A", "T">>,
      <<"S", "S", "C">>,
      <<"G", "A", "T", "E">>,
      <<"c", "o", "n", "s", "t", "r", "u", "c", "t", "o", "r">>,
      <<"_", "_", "p", "r", "o", "t", "o", "_", "_">> }

KeywordSubExams ==
    { <<>>,
      <<"C", "G", "L", " ", "T", "i", "e", "r", " ", "1">>,
      <<"T", "i", "e", "r", " ", "9">>,
      <<"t", "o", "S", "t", "r", "i", "n", "g">> }

KeywordTags ==
    { <<>>,
      <<<<"P", "Y", "Q">>>>,
      <<<<"c", "a", "t", " ", "p", "y", "q">>, <<"z", "z", "z">>>>,
      <<<<"A", "l", "g", "e", "b", "r", "a">>, <<"a", "l", "g", "e", "b", "r", "a">>, <<>>>>,
      <<<<"S", "S", "C", " ", "C", "G", "L", " ", "P", "Y", "Q">>, <<"A", "p", "t", "i", "t", "u", "d", "e", " ", "P", "r", "a", "c", "t", "i", "c", "e">>>> }

KeywordCategories == { <<>>, <<"Q", "u", "a", "n", "t">> }

KeywordQuestions ==
    { [FullQuestion(7, <<"F", "i", "n", "d", " ", "x">>, e, se, <<"A", "l", "g", "e", "b", "r", "a">>, <<"E", "a", "s", "y">>, tg) EXCEPT !.category = c] :
        e \in KeywordExams, se \in KeywordSubExams, tg \in KeywordTags, c \in KeywordCategories }

\* statements that an image test may or may not take for an image reference
ClassifierStatements ==
    { <<"F", "i", "n", "d", " ", "x">>,
      <<"h", "t", "t", "p", ":", "/", "/", "i", ".", "p", "n", "g">>,
      <<"H", "T", "T", "P", "S", ":", "/", "/", "C", "D", "N", ".", "X", "/", "Y">>,
      <<"f", "i", "g", ".", "p", "n", "g">>,
      <<"s", "e", "e", " ", "r", "e", "s", ".", "c", "l", "o", "u", "d", "i", "n", "a", "r", "y", ".", "c", "o", "m", "/", "x">>,
      <<"h", "t", "t", "p", "d", " ", "l", "o", "g", "s">>,
      <<"x", "x", "x", "x", "x", "x", "x", "x", "x", "x", "x", "x", "x", "x", "x", "x", "x", "x", "x", "x", "x", "x", "x", "x", "x", "x", "x", "x", "x", "x", "x", "x", "x", "x", "x", "x", "x", "x", "x", "x", "x", "x", "x", "x", "x", "x", "x", "x", "x", "x", "x", "x", "x", "x", "x", "x", "x", "x", "x", "x", "x", "x", "x", "x", "x", "x", "x", "x", "x", "x", "x", "x", "x", "x", "x", "x", "x", "x", "x", "x", "x", "x", "x", "x", "x", "x", "x", "x", "x", "x", "x", "x", "x", "x", "x", "x", "x", "x", "x", "x", "x">> }

OptionLists ==
    { <<>>,
      <<[type |-> <<"t", "e", "x", "t">>, content |-> JsString(<<"3">>)],
         [type |-> <<"t", "e", "x", "t">>, content |-> JsString(<<"4">>)],
         [type |-> <<"t", "e", "x", "t">>, content |-> JsString(<<"5">>)],
         [type |-> <<"t", "e", "x", "t">>, content |-> JsString(<<"6">>)]>>,
      <<[type |-> <<>>, content |-> JsString(<<"a">>)],
         [type |-> <<>>, content |-> JsString(<<"b">>)],
         [type |-> <<>>, content |-> JsString(<<"c">>)],
         [type |-> <<>>, content |-> JsString(<<"d">>)],
         [type |-> <<>>, content |-> JsString(<<"e">>)],
         [type |-> <<>>, content |-> JsString(<<"f">>)],
         [type |-> <<>>, content |-> JsString(<<"g">>)]>>,
      <<[type |-> <<"i", "m", "a", "g", "e">>, content |-> JsString(<<"h", "t", "t", "p", ":", "/", "/", "x", "/", "a", ".", "p", "n", "g">>)],
         [type |-> <<"t", "e", "x", "t">>, content |-> JsString(<<>>)],
         [type |-> <<"t", "e", "x", "t">>, content |-> JsString(<<"5">>)],
         [type |-> <<"t", "e", "x", "t">>, content |-> JsNumber],
         [type |-> <<>>, content |-> JsString(<<"h", "t", "t", "p", ":", "/", "/", "y">>)],
         [type |-> <<>>, content |-> JsString(<<"7", " ", "m">>)],
         [type |-> <<"i", "m", "a", "g", "e">>, content |-> JsString(<<"8">>)]>>,
      <<[type |-> <<"i", "m", "a", "g", "e">>, content |-> JsString(<<"f", "i", "g">>)],
         [type |-> <<"t", "e", "x", "t">>, content |-> JsString(<<>>)],
         [type |-> <<"t", "e", "x", "t">>, content |-> JsString(<<"h", "t", "t", "p", "s", ":", "/", "/", "z">>)]>>,
      <<[type |-> <<"t", "e", "x", "t">>, content |-> JsString(<<"h", "t", "t", "p", ":", "/", "/", "w">>)],
         [type |-> <<"t", "e", "x", "t">>, content |-> JsString(<<"p">>)],
         [type |-> <<"t", "e", "x", "t">>, content |-> JsString(<<"q">>)],
         [type |-> <<"t", "e", "x", "t">>, content |-> JsString(<<"r">>)],
         [type |-> <<"t", "e", "x", "t">>, content |-> JsString(<<"s">>)],
         [type |-> <<"t", "e", "x", "t">>, content |-> JsString(<<"t">>)],
         [type |-> <<"t", "e", "x", "t">>, content |-> JsString(<<"u">>)]>> }

QuestionTypes == { <<"M", "C", "Q">>, <<"M", "u", "l", "t", "i", "p", "l", "e", " ", "C", "o", "r", "r", "e", "c", "t">>, <<"I", "n", "t", "e", "g", "e", "r">>, <<"S", "u", "b", "j", "e", "c", "t", "i", "v", "e">> }

DescriptionQuestions ==
    LET plain(s) == FullQuestion(7, s, <<"C", "A", "T">>, <<>>, <<"A", "l", "g", "e", "b", "r", "a">>, <<"E", "a", "s", "y">>, <<>>)
    IN  { [plain(s) EXCEPT !.type = ty, !.options = o] :
            s \in ClassifierStatements, ty \in QuestionTypes, o \in OptionLists }
        \cup { Without([plain(s) EXCEPT !.options = o], {"topic", "difficulty"}) :
            s \in ClassifierStatements, o \in OptionLists }

\* texts longer than every cap of buildBaseSlug, and so long together that the
\* uncapped parts would exceed 200 characters
LongStatements ==
    { <<"a", "b", "c", "d", "e", "f", "g", "h", "i", "j", "k", "l", "m", "n", "o", "p", "q", "r", "s", "t", " ", "a", "b", "c", "d", "e", "f", "g", "h", "i", "j", "k", "l", "m", "n", "o", "p", "q", "r", "s", "t", " ", "a", "b", "c", "d", "e", "f", "g", "h", "i", "j", "k", "l", "m", "n", "o", "p", "q", "r", "s", "t", " ", "a", "b", "c", "d", "e", "f", "g", "h", "i", "j", "k", "l", "m", "n", "o", "p", "q", "r", "s", "t", " ", "a", "b", "c", "d", "e", "f", "g", "h", "i", "j", "k", "l", "m", "n", "o", "p", "q", "r", "s", "t", " ", "a", "b", "c", "d", "e", "f", "g", "h", "i", "j", "k", "l", "m", "n", "o", "p", "q", "r", "s", "t", " ", "a", "b", "c", "d", "e", "f", "g", "h", "i", "j", "k", "l", "m", "n", "o", "p", "q", "r", "s", "t", " ", "a", "b", "c", "d", "e", "f", "g", "h", "i", "j", "k", "l", "m", "n", "o", "p", "q", "r", "s", "t", " ", "a", "b", "c", "d", "e", "f", "g", "h", "i", "j", "k", "l", "m", "n", "o", "p", "q", "r", "s", "t", " ", "a", "b", "c", "d", "e", "f", "g", "h", "i", "j", "k", "l", "m", "n", "o", "p", "q", "r", "s", "t">>,
      <<"a", "a", "a", "a", "a", "a", "a", "a", "a", "a", "a", "a", "a", "a", "a", "a", "a", "a", "a", "a", "a", "a", "a", "a", "a", "a", "a", "a", "a", "a", "a", "a", "a", "a", "a", "a", "a", "a", "a", "a", "a", "a", "a", "a", "a", "a", "a", "a", "a", "a", "a", "a", "a", "a", "a", "a", "a", "a", "a", "a">> }

LengthQuestions ==
    { FullQuestion(120, s, e, se, t, <<"E", "a", "s", "y">>, <<>>) :
        s \in LongStatements,
        e \in {<<"C", "A", "T">>, <<"E", "x", "a", "m", "i", "n", "a", "t", "i", "o", "n", "B", "o", "a", "r", "d", "O", "f", "N", "a", "t", "i", "o", "n", "a", "l", "T", "e", "s", "t", "i", "n", "g", "A", "g", "e", "n", "c", "y">>},
        se \in {<<>>, <<"P", "r", "e", "l", "i", "m", "i", "n", "a", "r", "y", "Q", "u", "a", "l", "i", "f", "y", "i", "n", "g", "S", "t", "a", "g", "e", "N", "u", "m", "b", "e", "r", "O", "n", "e">>},
        t \in {<<"A", "l", "g", "e", "b", "r", "a">>, <<"P", "e", "r", "m", "u", "t", "a", "t", "i", "o", "n", "s", "C", "o", "m", "b", "i", "n", "a", "t", "i", "o", "n", "s", "P", "r", "o", "b", "a", "b", "i", "l", "i", "t", "y">>} }

SeoQuestions == SlugQuestions \cup TitleQuestions \cup KeywordQuestions \cup DescriptionQuestions
                    \cup LengthQuestions

Returned(op, out) == [op |-> op, out |-> out, threw |-> FALSE]

BuildBaseSlug ==
    /\ seo' = Returned("buildBaseSlug", buildBaseSlug(seoInput))
    /\ UNCHANGED <<seoInput, fetcherVars, slugVars, sitemapVars>>

GenerateQuickSlug ==
    /\ seo' = Returned("generateQuickSlug", generateQuickSlug(seoInput))
    /\ UNCHANGED <<seoInput, fetcherVars, slugVars, sitemapVars>>

\* generateSlug(question) without a slug map
GenerateSlug ==
    /\ seo' = Returned("generateSlug", generateSlug(seoInput, NoSlugMap))
    /\ UNCHANGED <<seoInput, fetcherVars, slugVars, sitemapVars>>

GenerateTitle ==
    /\ seo' = Returned("generateTitle", generateTitle(seoInput))
    /\ UNCHANGED <<seoInput, fetcherVars, slugVars, sitemapVars>>

GenerateKeywords ==
    /\ seo' = [op |-> "generateKeywords", out |-> generateKeywords(seoInput).out,
               threw |-> generateKeywords(seoInput).threw]
    /\ UNCHANGED <<seoInput, fetcherVars, slugVars, sitemapVars>>

GenerateDescription ==
    /\ seo' = Returned("generateDescription", generateDescription(seoInput))
    /\ UNCHANGED <<seoInput, fetcherVars, slugVars, sitemapVars>>

GenerateSchema ==
    /\ seo' = Returned("generateSchema", generateSchema(seoInput))
    /\ UNCHANGED <<seoInput, fetcherVars, slugVars, sitemapVars>>

InitSeo ==
    /\ backendN = 0
    /\ questionsCache = NoCache
    /\ fetchPromise = NullPromise
    /\ fetches = <<>>
    /\ calls = <<>>
    /\ batch = <<>>
    /\ slugInput = <<>>
    /\ slugOut = NoMap
    /\ slugPrev = NoMap
    /\ seoInput \in SeoQuestions
    /\ seo = NoSeo
    /\ SitemapIdle

NextSeo ==
    \/ BuildBaseSlug
    \/ GenerateQuickSlug
    \/ GenerateSlug
    \/ GenerateTitle
    \/ GenerateKeywords
    \/ GenerateDescription
    \/ GenerateSchema

SpecSeo == InitSeo /\ [][NextSeo]_vars

(***************************************************************************)
(* dataFetcher.ts: buildQuestionIndexes.  A JavaScript Map is the sequence *)
(* of its entries <<key, value>> in insertion order.                       *)
(***************************************************************************)
\* Map.prototype.keys
MapKeys(m) == [i \in 1..Len(m) |-> m[i][1]]

\* Map.prototype.has
MapHas(m, key) == \E i \in 1..Len(m) : m[i][1] = key

\* Map.prototype.get of a key the map has
MapGet(m, key) == m[CHOOSE i \in 1..Len(m) : m[i][1] = key][2]

\* Map.prototype.set
MapPut(m, key, value) ==
    IF MapHas(m, key)
    THEN [i \in 1..Len(m) |-> IF m[i][1] = key THEN <<key, value>> ELSE m[i]]
    ELSE Append(m, <<key, value>>)

\* if (!index.has(key)) index.set(key, []); index.get(key)!.push(q)
PushToBucket(index, key, q) ==
    MapPut(index, key, Append(IF MapHas(index, key) THEN MapGet(index, key) ELSE <<>>, q))

PairIndexed_IgnoringExam(q) == q.topic # <<>>

\* lines 182-189: the exam+topic index is filled inside the exam branch
PairIndexed(q) == q.exam # <<>> /\ q.topic # <<>>

PairKey_TopicFirst(q) == q.topic \o <<":", ":">> \o q.exam

\* line 190
PairKey(q) == q.exam \o <<":", ":">> \o q.topic

\* lines 161-197: the body of the loop for question q
IndexQuestion(ix, q) ==
    [byQuestionNumber |-> MapPut(ix.byQuestionNumber, q.questionNumber, q),
     byTopic |-> IF q.topic # <<>> THEN PushToBucket(ix.byTopic, q.topic, q) ELSE ix.byTopic,
     byCategory |-> IF q.category # <<>> THEN PushToBucket(ix.byCategory, q.category, q)
                    ELSE ix.byCategory,
     byExam |-> IF q.exam # <<>> THEN PushToBucket(ix.byExam, q.exam, q) ELSE ix.byExam,
     byExamAndTopic |-> IF PairIndexed(q) THEN PushToBucket(ix.byExamAndTopic, PairKey(q), q)
                        ELSE ix.byExamAndTopic]

\* lines 155-159
EmptyIndexes ==
    [byTopic |-> <<>>, byCategory |-> <<>>, byExam |-> <<>>, byExamAndTopic |-> <<>>,
     byQuestionNumber |-> <<>>]

RECURSIVE IndexAll(_, _)
IndexAll(ix, questions) ==
    IF questions = <<>> THEN ix ELSE IndexAll(IndexQuestion(ix, questions[1]), Tail(questions))

\* lines 148-200
buildQuestionIndexes(questions) == IndexAll(EmptyIndexes, questions)

(***************************************************************************)
(* seoGenerator.ts: createSlug, generateAllQuestionSEO.                    *)
(***************************************************************************)
\* String.prototype.split(sep) for a non-empty separator text: matches are taken
\* left to right and do not overlap
RECURSIVE SplitText(_, _)
SplitText(s, sep) ==
    IF ~includes(s, sep) THEN <<s>>
    ELSE LET i == CHOOSE k \in 1..Len(s) : OccursAt(s, sep, k) /\ \A j \in 1..(k - 1) : ~OccursAt(s, sep, j)
         IN  <<SubSeq(s, 1, i - 1)>> \o SplitText(SubSeq(s, i + Len(sep), Len(s)), sep)

\* s.replace(/[^a-z0-9\-]/g, '')
KeepSlugChars(s) == SelectSeq(s, LAMBDA c : c \in SlugChars)

\* lines 8-10
createSlug(text) == KeepSlugChars(SpacesToHyphen(toLowerCase(text)))

\* lines 275-289: the fields of the SEO record that the model keeps
generateQuestionSEO(q, slugMap) ==
    [slug |-> generateSlug(q, slugMap), title |-> generateTitle(q),
     keywords |-> generateKeywords(q).out]

\* lines 295-304; generateKeywords throwing for one question makes the call throw
SeoOfAll(questions, slugMap) ==
    IF \E i \in 1..Len(questions) : generateKeywords(questions[i]).threw
    THEN [threw |-> TRUE, map |-> <<>>]
    ELSE [threw |-> FALSE,
          map |-> [n \in {questions[i].questionNumber : i \in 1..Len(questions)} |->
                      generateQuestionSEO(
                          questions[CHOOSE i \in 1..Len(questions) :
                                       /\ questions[i].questionNumber = n
                                       /\ \A j \in (i + 1)..Len(questions) :
                                             questions[j].questionNumber # n],
                          slugMap)]]

\* line 297: the slug map is computed once, then lines 299-301 for every question
generateAllQuestionSEO(questions) ==
    CHOOSE seoMap \in { SeoOfAll(questions, slugMap) :
                           slugMap \in {[given |-> TRUE, map |-> generateAllSlugs(questions)]} } : TRUE

(***************************************************************************)
(* sitemap.xml.ts: the GET handler.  An entry of the document records the  *)
(* section that produced it, its <loc> and the item it was made from.      *)
(***************************************************************************)
SITE_URL == <<"h", "t", "t", "p", "s", ":", "/", "/", "a", "p", "t", "i", "d", "u", "d", "e", ".", "i", "n">>

\* lines 10-13
seoLayerPages ==
    <<<<"/">>,
     <<"/", "l", "e", "a", "r", "n">>>>

\* lines 16-32
reactAppPages ==
    <<<<"/", "a", "p", "p">>,
     <<"/", "a", "p", "p", "/", "l", "e", "a", "r", "n">>,
     <<"/", "a", "p", "p", "/", "p", "r", "a", "c", "t", "i", "c", "e">>,
     <<"/", "a", "p", "p", "/", "c", "o", "m", "p", "e", "t", "e">>,
     <<"/", "a", "p", "p", "/", "q", "u", "e", "s", "t", "i", "o", "n", "-", "l", "i", "s", "t", "s">>,
     <<"/", "a", "p", "p", "/", "c", "a", "t", "m", "o", "c", "k", "s">>,
     <<"/", "a", "p", "p", "/", "d", "i", "s", "c", "u", "s", "s">>,
     <<"/", "a", "p", "p", "/", "b", "l", "o", "g", "s">>,
     <<"/", "a", "p", "p", "/", "a", "b", "o", "u", "t">>,
     <<"/", "a", "p", "p", "/", "c", "o", "n", "t", "a", "c", "t">>,
     <<"/", "a", "p", "p", "/", "r", "a", "t", "i", "n", "g", "s", "-", "e", "x", "p", "l", "a", "i", "n", "e", "d">>,
     <<"/", "a", "p", "p", "/", "c", "a", "r", "e", "e", "r", "s">>,
     <<"/", "a", "p", "p", "/", "t", "e", "r", "m", "s">>,
     <<"/", "a", "p", "p", "/", "p", "r", "i", "v", "a", "c", "y">>,
     <<"/", "a", "p", "p", "/", "c", "o", "o", "k", "i", "e", "s">>>>

\* lines 66-72
CORE_COURSES ==
    <<<<"q", "u", "a", "n", "t", "i", "t", "a", "t", "i", "v", "e", "-", "a", "p", "t", "i", "t", "u", "d", "e">>,
     <<"l", "o", "g", "i", "c", "a", "l", "-", "r", "e", "a", "s", "o", "n", "i", "n", "g">>,
     <<"r", "e", "a", "d", "i", "n", "g", "-", "c", "o", "m", "p", "r", "e", "h", "e", "n", "s", "i", "o", "n">>,
     <<"v", "e", "r", "b", "a", "l", "-", "a", "b", "i", "l", "i", "t", "y">>,
     <<"d", "a", "t", "a", "-", "i", "n", "t", "e", "r", "p", "r", "e", "t", "a", "t", "i", "o", "n">>>>

Entry(section, loc, item) == [section |-> section, loc |-> loc, item |-> item]

\* lines 50-63
StaticUrls(section, pages) ==
    [i \in 1..Len(pages) |-> Entry(section, SITE_URL \o pages[i], pages[i])]

\* lines 75-83: metaData.courses[slug] for the allow-listed slugs it has
courseUrls ==
    LET present == SelectSeq(CORE_COURSES, LAMBDA slug : slug \in DOMAIN metaData.courses)
    IN  [i \in 1..Len(present) |->
            Entry("course", SITE_URL \o metaData.courses[present[i]], present[i])]

\* lines 88-89: topic.path.split('/')[2] is one of CORE_COURSES
InCoreCourse(path) ==
    LET segments == SplitText(path, <<"/">>)
    IN  Len(segments) >= 3 /\ segments[3] \in Range(CORE_COURSES)

\* lines 86-96
metaTopicUrls ==
    LET kept == SelectSeq(metaData.topics, InCoreCourse)
    IN  [i \in 1..Len(kept) |-> Entry("metaTopic", SITE_URL \o kept[i], kept[i])]

\* lines 99-107
examUrls(indexes) ==
    LET names == MapKeys(indexes.byExam)
    IN  [i \in 1..Len(names) |->
            Entry("exam", SITE_URL \o <<"/", "l", "e", "a", "r", "n", "/">> \o createSlug(names[i]), names[i])]

\* lines 110-120
topicUrls(indexes) ==
    LET keys == MapKeys(indexes.byExamAndTopic)
    IN  [i \in 1..Len(keys) |->
            LET pieces == SplitText(keys[i], <<":", ":">>)
                examName == pieces[1]
                topicName == pieces[2]
            IN  Entry("topic",
                      SITE_URL \o <<"/", "l", "e", "a", "r", "n", "/">> \o createSlug(examName) \o <<"/">> \o createSlug(topicName),
                      keys[i])]

\* Date.prototype.getTime of an Invalid Date is NaN
IsNaN(date) == ~date.valid

\* line 123: the comparator; a NaN result counts as +0 in Array.prototype.sort
CompareUpdatedAt(a, b) ==
    IF IsNaN(a.updatedAt) \/ IsNaN(b.updatedAt) THEN 0
    ELSE b.updatedAt.time - a.updatedAt.time

\* the comparator orders the list consistently: an Invalid Date compares equal to
\* everything, so it must not stand beside two dates that differ
ConsistentComparator(questions) ==
    \/ \A i \in 1..Len(questions) : ~IsNaN(questions[i].updatedAt)
    \/ \A i \in 1..Len(questions), j \in 1..Len(questions) :
          CompareUpdatedAt(questions[i], questions[j]) = 0

\* the stable sort by a consistent comparator
StableSort(questions) ==
    [k \in 1..Len(questions) |->
        questions[CHOOSE i \in 1..Len(questions) :
            Cardinality({j \in 1..Len(questions) :
                \/ CompareUpdatedAt(questions[j], questions[i]) < 0
                \/ (CompareUpdatedAt(questions[j], questions[i]) = 0 /\ j <= i)}) = k]]

\* line 123: Array.prototype.sort is stable; with an inconsistent comparator the
\* resulting order is implementation-defined
SortOutcomes(questions) ==
    IF ConsistentComparator(questions) THEN {StableSort(questions)} ELSE Orderings(questions)

MsPerDay == 86400000

LastmodThrows_Never(q) == FALSE

\* line 132: toISOString throws a RangeError for an Invalid Date
LastmodThrows(q) == IsNaN(q.updatedAt)

\* lines 125-144: the entries of the questions, in the order of the sorted array;
\* a question without SEO record or whose entry throws yields no entry
questionUrls(sorted, seoMap) ==
    LET kept == SelectSeq(sorted, LAMBDA q : q.questionNumber \in DOMAIN seoMap /\ ~LastmodThrows(q))
    IN  [i \in 1..Len(kept) |->
            [section |-> "question",
             loc |-> SITE_URL \o <<"/", "q", "u", "e", "s", "t", "i", "o", "n", "s", "/">> \o seoMap[kept[i].questionNumber].slug,
             item |-> kept[i],
             lastmod |-> kept[i].updatedAt.time \div MsPerDay]]

\* lines 161-170
Document(indexes, sorted, seoMap) ==
    StaticUrls("seoLayer", seoLayerPages) \o StaticUrls("reactApp", reactAppPages)
        \o courseUrls \o metaTopicUrls \o examUrls(indexes) \o topicUrls(indexes)
        \o questionUrls(sorted, seoMap)

\* lines 34-182, run once per build.  `questions` is the array fetchAllQuestions
\* returned, which is the array questionsCache holds; it is sorted in place.
SitemapGET ==
    /\ ~sitemap.ran
    /\ ReturnsCached(NoArg)
    /\ \E indexes \in {buildQuestionIndexes(cachedArray)}, seoAll \in {generateAllQuestionSEO(cachedArray)} :
           IF seoAll.threw
           THEN /\ sitemap' = [sitemap EXCEPT !.ran = TRUE, !.threw = TRUE, !.indexes = <<>>, !.urls = <<>>]
                /\ UNCHANGED cachedArray
           ELSE \E sorted \in SortOutcomes(cachedArray) :
                /\ cachedArray' = sorted
                /\ sitemap' = [sitemap EXCEPT !.ran = TRUE, !.threw = FALSE, !.indexes = indexes,
                                              !.urls = Document(indexes, sorted, seoAll.map)]
    /\ UNCHANGED <<metaData, laterSeen, handler, fetcherVars, slugVars, seoVars>>

\* a later fetchAllQuestions() call is served the cached array
LaterCall ==
    /\ sitemap.ran
    /\ laterSeen = <<>>
    /\ ReturnsCached(NoArg)
    /\ laterSeen' = cachedArray
    /\ UNCHANGED <<cachedArray, metaData, sitemap, handler, fetcherVars, slugVars, seoVars>>

(***************************************************************************)
(* The question lists and meta.json contents the sitemap is built from.    *)
(***************************************************************************)
SitemapQuestions ==
    { [FullQuestion(1, <<"F", "i", "n", "d", " ", "x">>, <<"C", "A", "T">>, <<>>, <<"A", "l", "g", "e", "b", "r", "a">>, <<"E", "a", "s", "y">>, <<>>) EXCEPT !.category = <<"Q", "u", "a", "n", "t">>, !.updatedAt = DateAt(MsPerDay)],
      [FullQuestion(2, <<"F", "i", "n", "d", " ", "x">>, <<"C", "A", "T">>, <<>>, <<"A", "l", "g", "e", "b", "r", "a">>, <<"E", "a", "s", "y">>, <<>>) EXCEPT !.category = <<>>, !.updatedAt = DateAt(3 * MsPerDay)],
      [FullQuestion(3, <<"S", "o", "l", "v", "e">>, <<"A", ":">>, <<>>, <<"B">>, <<"E", "a", "s", "y">>, <<>>) EXCEPT !.category = <<"Q", "u", "a", "n", "t">>, !.updatedAt = DateAt(2 * MsPerDay)],
      [FullQuestion(4, <<"S", "o", "l", "v", "e">>, <<"A">>, <<>>, <<":", "B">>, <<"E", "a", "s", "y">>, <<>>) EXCEPT !.category = <<>>, !.updatedAt = DateAt(2 * MsPerDay + 1)],
      [FullQuestion(5, <<"F", "i", "n", "d", " ", "x">>, <<>>, <<>>, <<"A", "l", "g", "e", "b", "r", "a">>, <<"E", "a", "s", "y">>, <<>>) EXCEPT !.category = <<"Q", "u", "a", "n", "t">>, !.updatedAt = DateAt(2 * MsPerDay)],
      [FullQuestion(6, <<"F", "i", "n", "d", " ", "x">>, <<"S", "S", "C">>, <<>>, <<>>, <<"E", "a", "s", "y">>, <<>>) EXCEPT !.category = <<>>, !.updatedAt = InvalidDate],
      [FullQuestion(7, <<"S", "o", "l", "v", "e">>, <<"X", ":", ":", "Y">>, <<>>, <<"Z">>, <<"E", "a", "s", "y">>, <<>>) EXCEPT !.category = <<>>, !.updatedAt = DateAt(0)],
      [FullQuestion(8, <<"F", "i", "n", "d", " ", "x">>, <<"c", "o", "n", "s", "t", "r", "u", "c", "t", "o", "r">>, <<>>, <<"A", "l", "g", "e", "b", "r", "a">>, <<"E", "a", "s", "y">>, <<>>) EXCEPT !.category = <<>>, !.updatedAt = DateAt(0)] }

\* every list of at most MaxList questions, repetitions included
QuestionLists == UNION { [1..n -> SitemapQuestions] : n \in 0..MaxList }

MetaChoices ==
    { NoMeta,
      [courses |-> (<<"v", "e", "r", "b", "a", "l", "-", "a", "b", "i", "l", "i", "t", "y">> :> <<"/", "l", "e", "a", "r", "n", "/", "v", "e", "r", "b", "a", "l", "-", "a", "b", "i", "l", "i", "t", "y">>)
                   @@ (<<"c", "o", "d", "i", "n", "g">> :> <<"/", "l", "e", "a", "r", "n", "/", "c", "o", "d", "i", "n", "g">>)
                   @@ (<<"q", "u", "a", "n", "t", "i", "t", "a", "t", "i", "v", "e", "-", "a", "p", "t", "i", "t", "u", "d", "e">> :> <<"/", "l", "e", "a", "r", "n", "/", "q", "u", "a", "n", "t", "i", "t", "a", "t", "i", "v", "e", "-", "a", "p", "t", "i", "t", "u", "d", "e">>),
       topics |-> <<<<"/", "l", "e", "a", "r", "n", "/", "c", "o", "d", "i", "n", "g", "/", "a", "r", "r", "a", "y", "s">>,
                  <<"/", "l", "e", "a", "r", "n", "/", "q", "u", "a", "n", "t", "i", "t", "a", "t", "i", "v", "e", "-", "a", "p", "t", "i", "t", "u", "d", "e", "/", "p", "e", "r", "c", "e", "n", "t", "a", "g", "e", "s">>,
                  <<"/", "l", "e", "a", "r", "n", "/", "v", "e", "r", "b", "a", "l", "-", "a", "b", "i", "l", "i", "t", "y", "/", "g", "r", "a", "m", "m", "a", "r">>,
                  <<"/", "l", "e", "a", "r", "n">>>>] }

InitSitemap ==
    /\ cachedArray \in QuestionLists
    /\ metaData \in MetaChoices
    /\ sitemap = [NoSitemap EXCEPT !.fetched = cachedArray]
    /\ laterSeen = <<>>
    /\ handler = NoHandler
    /\ backendN = Len(cachedArray)
    /\ questionsCache = [isSet |-> TRUE, value |-> FirstN(backendN)]
    /\ fetchPromise = NullPromise
    /\ fetches = <<>>
    /\ calls = <<>>
    /\ batch = <<>>
    /\ slugInput = <<>>
    /\ slugOut = NoMap
    /\ slugPrev = NoMap
    /\ SeoIdle

NextSitemap == SitemapGET \/ LaterCall

SpecSitemap == InitSitemap /\ [][NextSitemap]_vars

(***************************************************************************)
(* sitemap.xml.ts: the GET handler on top of the fetcher.  The call of     *)
(* line 39 is one of the uncapped fetchAllQuestions() calls; the handler   *)
(* resumes when the promise that call returned is settled.  Questions are  *)
(* backend positions here, so a response is recorded by the list it was    *)
(* built from; the document made from a list and the order line 123 leaves *)
(* the cached array in are modelled by SitemapGET above.                   *)
(***************************************************************************)
\* the promise returned to call k is rejected: an uncapped call is handed the promise
\* of lines 135-138, which rejects once its catch handler has rethrown
Rejected(k) ==
    /\ calls[k].via # "cache"
    /\ fetches[calls[k].fetch].status = "rejected"
    /\ ~fetches[calls[k].fetch].catchPending

\* the promise returned to call k is fulfilled
Fulfilled(k) ==
    \/ calls[k].via = "cache"
    \/ calls[k].via # "cache" /\ fetches[calls[k].fetch].status = "fulfilled"

\* line 39: what the await evaluates to
Awaited(k) ==
    IF calls[k].via = "cache" THEN calls[k].list ELSE fetches[calls[k].fetch].result

FatalError_EmitPartial(k) ==
    [phase |-> "responded", call |-> k, list |-> fetches[calls[k].fetch].allQuestions, error |-> ""]

\* lines 178-181: the error of the await is logged and rethrown
FatalError(k) ==
    [phase |-> "rejected", call |-> k, list |-> <<>>, error |-> fetches[calls[k].fetch].error]

\* lines 40-177: the Response is built from the awaited list, unless the SEO
\* precomputation of line 46 throws for one of its questions
Outcomes(k) ==
    { [phase |-> "responded", call |-> k, list |-> Awaited(k), error |-> ""],
      [phase |-> "rejected", call |-> k, list |-> <<>>, error |-> "TypeError"] }

\* lines 34-182, from the await of line 39 on
SitemapGETResumes(k) ==
    /\ handler.phase = "idle"
    /\ k \in 1..Len(calls)
    /\ calls[k].maxQuestions = NoArg
    /\ \/ Rejected(k) /\ handler' = FatalError(k)
       \/ Fulfilled(k) /\ handler' \in Outcomes(k)
    /\ UNCHANGED <<cachedArray, metaData, sitemap, laterSeen, fetcherVars, slugVars, seoVars>>

NextBuild ==
    \/ \E m \in {NoArg, Arg(limit)} : fetchAllQuestions(m)
    \/ \E f \in 1..MaxFetches : PageResponse(f)
    \/ \E f \in 1..MaxFetches : CatchHandler(f)
    \/ \E k \in 1..MaxCalls : SitemapGETResumes(k)

SpecBuild == Init /\ [][NextBuild]_vars

(***************************************************************************)
(* The fetcher against a backend that answers every page request           *)
(* successfully, and does answer every outstanding request.                *)
(***************************************************************************)
\* the outstanding page request of fetch f is answered with that page of the backend
PageAnswered(f) ==
    /\ f \in 1..Len(fetches)
    /\ fetches[f].status = "awaiting"
    /\ PageReceived(f, BackendPage(backendN, fetches[f].page, limit))
    /\ UNCHANGED <<backendN, calls, slugVars, seoVars, sitemapVars>>

NextHealthy ==
    \/ \E m \in {NoArg, Arg(limit + 1)} : fetchAllQuestions(m)
    \/ \E f \in 1..MaxFetches : PageAnswered(f)

SpecHealthy ==
    Init /\ [][NextHealthy]_vars /\ \A f \in 1..MaxFetches : WF_vars(PageAnswered(f))

(***************************************************************************)
(* Vocabulary of the fetcher properties.                                   *)
(***************************************************************************)
FetchIds == 1..Len(fetches)

CallIds == 1..Len(calls)

Uncapped(f) == ~Truthy(fetches[f].maxQuestions)

InFlight(f) == fetches[f].status = "awaiting"

\* <<1, 2, ..., k>>
UpTo(k) == [i \in 1..k |-> i]

\* the step is one call of fetchAllQuestions
IsCallStep == Len(calls') = Len(calls) + 1

NewCall == calls'[Len(calls')]

\* no fetch was started and no page was requested by the step
NoRequestIssued == fetches' = fetches

\* the step started fetch number Len(fetches) + 1 with a request for page 1
StartsFetch ==
    /\ Len(fetches') = Len(fetches) + 1
    /\ SubSeq(fetches', 1, Len(fetches)) = fetches
    /\ fetches'[Len(fetches')].requested = <<1>>
    /\ fetches'[Len(fetches')].status = "awaiting"

\* how many questions the backend serves on pages 1..k
ServedUpTo(k) == Min(k * limit, backendN)

(***************************************************************************)
(* C1. At most one uncapped pagination sequence is in progress at a time:  *)
(* an uncapped call made while another uncapped fetch is in flight issues  *)
(* no page request of its own and receives the promise of that fetch, and  *)
(* every page of an uncapped sequence is requested once.                   *)
(***************************************************************************)
C1_Inv ==
    /\ Cardinality({f \in FetchIds : Uncapped(f) /\ InFlight(f)}) <= 1
    /\ \A f \in FetchIds : Uncapped(f) /\ InFlight(f) => fetchPromise = f
    /\ \A f \in FetchIds : Uncapped(f) => fetches[f].requested = UpTo(Len(fetches[f].requested))
    /\ \A f \in FetchIds :
          Cardinality({i \in CallIds : calls[i].via = "fetchLogic" /\ calls[i].fetch = f}) = 1

C1_Step ==
    \A f \in FetchIds :
        (IsCallStep /\ ~Truthy(NewCall.maxQuestions) /\ Uncapped(f) /\ InFlight(f))
            => /\ NoRequestIssued
               /\ NewCall.via = "promise"
               /\ NewCall.fetch = f
               /\ fetchPromise' = fetchPromise

\* C1: in every state at most one uncapped sequence is in flight and it is the one
\* fetchPromise names; in every step an uncapped call made meanwhile joins it.
C1_SingleFlight == []C1_Inv /\ [][C1_Step]_vars

C1_Witness ==
    \E i \in CallIds :
        /\ calls[i].via = "promise"
        /\ ~calls[i].cacheSeen
        /\ fetches[calls[i].fetch].status = "fulfilled"
        /\ Len(fetches[calls[i].fetch].requested) >= 2

(***************************************************************************)
(* C2. A capped call fetchAllQuestions(c), c >= 1, always starts its own   *)
(* fetch at page 1, whatever the memo state, and neither the call nor any  *)
(* later step of its fetch (success or failure) changes questionsCache or  *)
(* fetchPromise.                                                           *)
(***************************************************************************)
C2_Inv ==
    \A i \in CallIds :
        Truthy(calls[i].maxQuestions)
            => /\ calls[i].via = "fetchLogic"
               /\ fetches[calls[i].fetch].maxQuestions = calls[i].maxQuestions
               /\ fetches[calls[i].fetch].requested[1] = 1
               /\ ~fetches[calls[i].fetch].catchPending

C2_Step ==
    /\ (IsCallStep /\ Truthy(NewCall.maxQuestions))
           => StartsFetch /\ NewCall.fetch = Len(fetches')
    /\ \A f \in 1..Len(fetches') :
           (Truthy(fetches'[f].maxQuestions) /\ (f > Len(fetches) \/ fetches'[f] # fetches[f]))
               => questionsCache' = questionsCache /\ fetchPromise' = fetchPromise

C3_Inv ==
    /\ questionsCache.isSet =>
          \E f \in FetchIds : /\ Uncapped(f)
                              /\ fetches[f].status = "fulfilled"
                              /\ fetches[f].result = questionsCache.value
    /\ \A f \in FetchIds :
          (Uncapped(f) /\ fetches[f].status = "rejected")
              => IF fetches[f].catchPending THEN fetchPromise = f ELSE fetchPromise # f

C3_Step ==
    /\ \A f \in FetchIds :
          \* the failure itself
          /\ (Uncapped(f) /\ InFlight(f) /\ fetches'[f].status = "rejected")
                => /\ ~questionsCache.isSet
                   /\ questionsCache' = questionsCache
                   /\ fetches'[f].catchPending
          \* the reset
          /\ (fetches[f].catchPending /\ ~fetches'[f].catchPending)
                => fetchPromise = f /\ fetchPromise' = NullPromise
    \* the next uncapped call after the reset
    /\ (/\ IsCallStep
        /\ ~Truthy(NewCall.maxQuestions)
        /\ ~questionsCache.isSet
        /\ \A f \in FetchIds : Uncapped(f) => (fetches[f].status = "rejected"
                                                /\ ~fetches[f].catchPending))
           => /\ StartsFetch
              /\ NewCall.via = "fetchLogic"
              /\ NewCall.fetch = Len(fetches')
              /\ fetchPromise' = Len(fetches')

C4_Inv ==
    \A f \in FetchIds :
        /\ fetches[f].requested = UpTo(Len(fetches[f].requested))
        /\ fetches[f].status = "rejected"
              => /\ fetches[f].result = <<>>
                 /\ fetches[f].error \in {"httpError", "invalidFormat"}
                 /\ Len(fetches[f].requested) = fetches[f].page
                 /\ \A i \in CallIds : calls[i].fetch = f => calls[i].list = <<>>
        /\ fetches[f].status # "rejected" => fetches[f].error = ""

C4_Step ==
    \A f \in FetchIds :
        /\ fetches[f].status = "rejected"
              => /\ fetches'[f].status = "rejected"
                 /\ fetches'[f].requested = fetches[f].requested
                 /\ fetches'[f].result = <<>>
        /\ (InFlight(f) /\ fetches'[f].error # "")
              => /\ fetches'[f].status = "rejected"
                 /\ fetches'[f].requested = fetches[f].requested

\* C4: a failed page rejects the fetch with no list, no later page and no retry.
C4_PageFailureAborts == []C4_Inv /\ [][C4_Step]_vars

C4_Witness ==
    \E f \in FetchIds, g \in FetchIds :
        /\ fetches[f].status = "rejected" /\ fetches[f].error = "httpError"
        /\ fetches[f].page = 3
        /\ ListLen(fetches[f].allQuestions) = 2 * limit
        /\ fetches[g].status = "rejected" /\ fetches[g].error = "invalidFormat"

(***************************************************************************)
(* C5. Once an uncapped fetch has succeeded, questionsCache never changes  *)
(* again, it holds the complete list of that successful pagination, and    *)
(* every later uncapped call returns that stored list without requesting   *)
(* any page, whatever capped calls happen in between.                      *)
(***************************************************************************)
C5_Inv ==
    /\ questionsCache.isSet => questionsCache.value = FirstN(backendN)
    /\ \A i \in CallIds :
          calls[i].via = "cache" => /\ ~Truthy(calls[i].maxQuestions)
                                    /\ calls[i].list = questionsCache.value

C5_Step ==
    /\ questionsCache.isSet => questionsCache' = questionsCache
    /\ (IsCallStep /\ ~Truthy(NewCall.maxQuestions) /\ questionsCache.isSet)
          => /\ NoRequestIssued
             /\ NewCall.via = "cache"
             /\ NewCall.list = questionsCache.value

\* C5: once set, questionsCache is the complete list, never changes, and serves every
\* later uncapped call without a request.
C5_CacheServesLaterCalls == []C5_Inv /\ [][C5_Step]_vars

C5_Witness ==
    /\ Len(calls) = 3
    /\ calls[1].via = "fetchLogic" /\ ~Truthy(calls[1].maxQuestions)
    /\ Truthy(calls[2].maxQuestions) /\ calls[2].cacheSeen
    /\ calls[3].via = "cache"
    /\ calls[3].list = FirstN(backendN)
    /\ backendN > limit

(***************************************************************************)
(* C6. A capped fetch with cap c >= 1 against a backend of N questions     *)
(* served in full pages returns the first min(c, N) questions in backend   *)
(* order, and has a request outstanding only while it holds fewer than c   *)
(* questions: it requests exactly the pages up to the first one with which *)
(* the count reaches c (or the first short page when N < c).               *)
(***************************************************************************)
C6_CappedPrefix ==
    \A f \in FetchIds :
        LET c == fetches[f].maxQuestions.n
            k == Len(fetches[f].requested)
        IN  ~Uncapped(f) =>
              /\ fetches[f].requested = UpTo(k)
              /\ InFlight(f) => ListLen(fetches[f].allQuestions) < c
              /\ k > 1 => ServedUpTo(k - 1) < c /\ ServedUpTo(k - 1) = (k - 1) * limit
              /\ fetches[f].status = "fulfilled"
                    => /\ fetches[f].result = FirstN(Min(c, backendN))
                       /\ ServedUpTo(k) >= c \/ ServedUpTo(k) < k * limit

C6_Witness ==
    \E f \in FetchIds, g \in FetchIds :
        /\ fetches[f].maxQuestions = Arg(limit + 1)
        /\ fetches[f].status = "fulfilled"
        /\ ListLen(fetches[f].allQuestions) = 2 * limit
        /\ ListLen(fetches[f].result) = limit + 1
        /\ fetches[g].maxQuestions = Arg(50)
        /\ fetches[g].status = "fulfilled"
        /\ fetches[g].requested = <<1>>
        /\ ListLen(fetches[g].result) = 50

(***************************************************************************)
(* C7. An uncapped fetch requests pages 1, 2, 3, ... in order, the next    *)
(* only after a full page, stops after the first page with fewer than      *)
(* 1000 questions, and returns the received pages concatenated in order.   *)
(***************************************************************************)
C7_Inv ==
    \A f \in FetchIds :
        LET k == Len(fetches[f].requested) IN
        Uncapped(f) =>
          /\ fetches[f].requested = UpTo(k)
          /\ \A p \in 1..(k - 1) : ListLen(BackendPage(backendN, p, limit)) = limit
          /\ InFlight(f) => /\ fetches[f].page = k
                            /\ fetches[f].allQuestions = FirstN((k - 1) * limit)
          /\ fetches[f].status = "fulfilled"
                => /\ ListLen(BackendPage(backendN, k, limit)) < limit
                   /\ fetches[f].result = FirstN(backendN)
                   /\ ListLen(fetches[f].result) = ServedUpTo(k)

C7_Step ==
    \A f \in FetchIds :
        Uncapped(f) =>
            \/ fetches'[f].requested = fetches[f].requested
            \/ /\ fetches'[f].requested = Append(fetches[f].requested, Len(fetches[f].requested) + 1)
               /\ InFlight(f)
               /\ ListLen(fetches'[f].allQuestions) = ListLen(fetches[f].allQuestions) + limit

\* C7: an uncapped fetch requests pages 1, 2, ... in order, each after a full page,
\* stops after the first short page and returns the pages concatenated.
C7_UncappedPagination == []C7_Inv /\ [][C7_Step]_vars

C7_Witness ==
    \E f \in FetchIds :
        /\ Uncapped(f)
        /\ fetches[f].status = "fulfilled"
        /\ fetches[f].requested = <<1, 2, 3>>
        /\ ListLen(fetches[f].result) = 2 * limit

(***************************************************************************)
(* Vocabulary of the slug properties.  The questions of a batch have       *)
(* pairwise distinct questionNumbers (spec, section 3).                    *)
(***************************************************************************)
SlugIdx == 1..Len(slugInput)

\* the slug the latest call gave the i-th question of its input
SlugOf(i) == slugOut.map[slugInput[i].questionNumber]

\* the base slug of every question of the input, by position
BaseSlugs == [i \in SlugIdx |-> buildBaseSlug(slugInput[i])]

\* the positions of the questions whose base slug (in table base) is that of the i-th
SameBase(base, i) == {j \in SlugIdx : base[j] = base[i]}

\* the 1-based position of the i-th question's number among the ascending numbers of its group
RankInGroup(base, i) ==
    Cardinality({j \in SameBase(base, i) :
                    slugInput[j].questionNumber <= slugInput[i].questionNumber})

(***************************************************************************)
(* C8. generateAllSlugs gives the questions of a batch (pairwise distinct  *)
(* questionNumbers) pairwise distinct slugs.                               *)
(***************************************************************************)
C8_SlugsDistinct ==
    slugOut.ran =>
        \A i \in SlugIdx, j \in SlugIdx :
            slugInput[i].questionNumber # slugInput[j].questionNumber => SlugOf(i) # SlugOf(j)

(***************************************************************************)
(* C9. In a group of two or more questions with the same base slug the     *)
(* question with the k-th smallest questionNumber gets <base>-k, and a     *)
(* question that shares its base slug with no other gets the base slug.    *)
(***************************************************************************)
C9_RankSuffix ==
    slugOut.ran =>
        \A base \in {BaseSlugs} :
        /\ DOMAIN slugOut.map = {slugInput[i].questionNumber : i \in SlugIdx}
        /\ \A i \in SlugIdx :
              SlugOf(i) = IF Cardinality(SameBase(base, i)) >= 2
                          THEN base[i] \o <<"-">> \o numToString(RankInGroup(base, i))
                          ELSE base[i]

C9_Witness ==
    /\ slugOut.ran
    /\ Len(slugInput) = 3
    /\ slugInput[1].questionNumber = 10
    /\ slugInput[2].questionNumber = 2
    /\ slugInput[1].statement # slugInput[2].statement
    /\ \E base \in {BaseSlugs} :
       /\ SameBase(base, 1) = {1, 2}
       /\ SlugOf(1) = base[1] \o <<"-", "2">>
       /\ SlugOf(2) = base[1] \o <<"-", "1">>
       /\ SlugOf(3) = base[3]

(***************************************************************************)
(* C10. The questionNumber -> slug map does not depend on the order of     *)
(* the input list: two calls on permutations of one question set return    *)
(* equal maps.                                                             *)
(***************************************************************************)
C10_OrderIndependent == (slugOut.ran /\ slugPrev.ran) => slugOut.map = slugPrev.map

C10_Witness ==
    /\ slugOut.ran /\ slugPrev.ran
    /\ Len(slugInput) = 3
    /\ slugInput # batch
    /\ slugInput[1].questionNumber > slugInput[2].questionNumber
    /\ \E base \in {BaseSlugs} : SameBase(base, 1) = {1, 2}

(***************************************************************************)
(* Vocabulary of the single-question properties.                           *)
(***************************************************************************)
\* the call the state records is one of these functions
SeoCall(ops) == seo.op \in ops

\* statement, exam or topic is absent or empty
LacksField(q) == q.statement = <<>> \/ q.exam = <<>> \/ q.topic = <<>>

\* the value of a text of decimal digits
RECURSIVE ParseNat(_)
ParseNat(s) ==
    IF s = <<>> THEN 0
    ELSE 10 * ParseNat(SubSeq(s, 1, Len(s) - 1))
         + (CHOOSE d \in 0..9 : <<"0", "1", "2", "3", "4", "5", "6", "7", "8", "9">>[d + 1] = s[Len(s)])

\* s is the canonical decimal numeral of n
IsNumeral(s, n) ==
    /\ s # <<>>
    /\ \A i \in 1..Len(s) : s[i] \in DigitChars
    /\ (Len(s) > 1 => s[1] # "0")
    /\ ParseNat(s) = n

(***************************************************************************)
(* C11. Whatever the statement, exam, subExam and topic texts and the      *)
(* non-negative questionNumber, buildBaseSlug returns a non-empty text of  *)
(* characters a-z, 0-9 and '-' that neither starts nor ends with '-' and   *)
(* has no two consecutive '-'.                                             *)
(***************************************************************************)
C11_WellFormedSlug ==
    SeoCall({"buildBaseSlug"}) =>
        /\ seo.out # <<>>
        /\ \A i \in 1..Len(seo.out) : seo.out[i] \in LowerChars \cup DigitChars \cup {"-"}
        /\ seo.out[1] # "-"
        /\ seo.out[Len(seo.out)] # "-"
        /\ \A i \in 1..(Len(seo.out) - 1) : ~(seo.out[i] = "-" /\ seo.out[i + 1] = "-")

\* a statement cut at 50 characters right after a hyphen, an exam cut at 30 right after
\* one, a subExam of hyphens only and a topic with punctuation
C11_Witness ==
    /\ SeoCall({"buildBaseSlug"})
    /\ Len(seoInput.statement) > 50
    /\ seoInput.statement[50] = " "
    /\ Len(seoInput.exam) > 30
    /\ seoInput.exam[30] = " "
    /\ seoInput.subExam = <<"-", "-">>
    /\ seoInput.topic = <<"T", "i", "m", "e", " ", "&", " ", "W", "o", "r", "k">>
    /\ Len(seo.out) > 80

(***************************************************************************)
(* C12. When the statement is classified as an image reference, the base   *)
(* slug built by buildBaseSlug starts with the token visual-question,      *)
(* followed by the exam and topic parts.                                   *)
(***************************************************************************)
C12_VisualQuestionPrefix ==
    (SeoCall({"buildBaseSlug"}) /\ ~LacksField(seoInput) /\ isImageUrl(seoInput.statement)) =>
        startsWith(seo.out, <<"v", "i", "s", "u", "a", "l", "-", "q", "u", "e", "s", "t", "i", "o", "n", "-">>)

(***************************************************************************)
(* C13. For a question whose statement, exam or topic is absent or empty,  *)
(* buildBaseSlug, generateQuickSlug and generateSlug without a slug map    *)
(* return exactly question-<questionNumber> and raise no error.            *)
(***************************************************************************)
C13_FallbackSlug ==
    (SeoCall({"buildBaseSlug", "generateQuickSlug", "generateSlug"}) /\ LacksField(seoInput)) =>
        /\ ~seo.threw
        /\ startsWith(seo.out, <<"q", "u", "e", "s", "t", "i", "o", "n", "-">>)
        /\ IsNumeral(SubSeq(seo.out, 10, Len(seo.out)), seoInput.questionNumber)

C13_Witness ==
    /\ SeoCall({"generateSlug"})
    /\ seoInput.statement # <<>>
    /\ seoInput.exam # <<>>
    /\ seoInput.topic = <<>>
    /\ seoInput.questionNumber = 120
    /\ seo.out = <<"q", "u", "e", "s", "t", "i", "o", "n", "-", "1", "2", "0">>

(***************************************************************************)
(* C14. Whatever the lengths of statement, exam, difficulty and topic, the *)
(* title returned by generateTitle has at most 120 characters.             *)
(***************************************************************************)
C14_TitleAtMost120 == SeoCall({"generateTitle"}) => Len(seo.out) <= 120

\* a suffix of more than 120 characters on its own
C14_Witness ==
    /\ SeoCall({"generateTitle"})
    /\ Len(TitleSuffix(seoInput)) > 120
    /\ Len(seoInput.statement) > 100
    /\ Len(seo.out) = 120

(***************************************************************************)
(* C15. generateTitle truncates the statement portion and appends an       *)
(* ellipsis exactly when statement + suffix is longer than 120 characters; *)
(* when the combined length is at most 120 the title is the full statement *)
(* followed by the suffix.                                                 *)
(***************************************************************************)
C15_TruncatesExactlyWhenOver ==
    SeoCall({"generateTitle"}) =>
        LET st == TitleStatementText(seoInput)
            suffix == TitleSuffix(seoInput)
        IN  IF Len(st) + Len(suffix) <= 120
            THEN seo.out = st \o suffix
            ELSE \E k \in 0..Len(st) :
                    seo.out = substring0(SubSeq(st, 1, k) \o <<".", ".", ".">> \o suffix, 120)

(***************************************************************************)
(* Vocabulary of the keyword properties.                                   *)
(***************************************************************************)
\* the three classes of keywords of the question handed to generateKeywords
Hierarchical == Range(HierarchicalKeywords(seoInput))

ExamSpecific ==
    IF seoInput.exam = <<>> THEN {}
    ELSE Range(getExamSpecificKeywords(seoInput.exam, seoInput.subExam).items)

Universal == Range(UNIVERSAL_KEYWORDS)

\* the position of keyword k in the returned list
KeywordPos(k) == CHOOSE i \in 1..Len(seo.out) : seo.out[i] = k

NoDuplicates(s) == \A i \in 1..Len(s), j \in 1..Len(s) : s[i] = s[j] => i = j

(***************************************************************************)
(* C16. For every question generateKeywords returns a list without         *)
(* duplicates in which every hierarchical keyword precedes every           *)
(* exam-specific keyword and every exam-specific keyword precedes every    *)
(* universal keyword (a keyword of several classes counts in the first).   *)
(***************************************************************************)
C16_KeywordsInOrder ==
    SeoCall({"generateKeywords"}) =>
        /\ ~seo.threw
        /\ NoDuplicates(seo.out)
        /\ Range(seo.out) = Hierarchical \cup ExamSpecific \cup Universal
        /\ \A h \in Hierarchical, e \in ExamSpecific \ Hierarchical : KeywordPos(h) < KeywordPos(e)
        /\ \A e \in ExamSpecific, u \in Universal \ (Hierarchical \cup ExamSpecific) :
              KeywordPos(e) < KeywordPos(u)

(***************************************************************************)
(* Vocabulary of the index and sitemap properties.                         *)
(***************************************************************************)
\* the question list the handler received from fetchAllQuestions, as fetched
Fetched == sitemap.fetched

\* the handler ran to completion
SitemapBuilt == sitemap.ran /\ ~sitemap.threw

\* the bucket of key in index, empty when the index has no such key
Bucket(index, key) == IF MapHas(index, key) THEN MapGet(index, key) ELSE <<>>

\* index holds, for every key, exactly the questions of the list that have the key
\* field and whose key is that key, once per occurrence and in list order, and it
\* has no empty bucket and no key twice
ExactIndex(index, HasKey(_), KeyOf(_)) ==
    /\ \A i \in 1..Len(index), j \in 1..Len(index) : index[i][1] = index[j][1] => i = j
    /\ \A i \in 1..Len(index) :
          /\ index[i][2] # <<>>
          /\ index[i][2] = SelectSeq(Fetched, LAMBDA q : HasKey(q) /\ KeyOf(q) = index[i][1])
    /\ \A n \in 1..Len(Fetched) : HasKey(Fetched[n]) => MapHas(index, KeyOf(Fetched[n]))

HasTopic(q) == q.topic # <<>>

HasCategory(q) == q.category # <<>>

HasExam(q) == q.exam # <<>>

HasExamAndTopic(q) == q.exam # <<>> /\ q.topic # <<>>

TopicOf(q) == q.topic

CategoryOf(q) == q.category

ExamOf(q) == q.exam

\* exam + '::' + topic
ExamTopicKey(exam, topic) == exam \o <<":", ":">> \o topic

ExamTopicKeyOf(q) == ExamTopicKey(q.exam, q.topic)

\* the exam names and topic names of the questions the lists are drawn from
ExamNames == {q.exam : q \in SitemapQuestions} \ {<<>>}

TopicNames == {q.topic : q \in SitemapQuestions} \ {<<>>}

NoSeparator(s) == ~includes(s, <<":", ":">>)

EndsWithColon(s) == s # <<>> /\ s[Len(s)] = ":"

\* the key under which byExamAndTopic holds the n-th question of the list
KeyHolding(n) ==
    LET index == sitemap.indexes.byExamAndTopic
    IN  index[CHOOSE i \in 1..Len(index) : Fetched[n] \in Range(index[i][2])][1]

\* the entries of the exam+topic section made from key
TopicEntries(key) ==
    SelectSeq(sitemap.urls, LAMBDA u : u.section = "topic" /\ u.item = key)

\* the n-th question's pair is encoded faithfully: the sitemap's split recovers it, no
\* question with another admitted pair shares its key, and it has one entry of its own
FaithfulFor(n, Admitted(_)) ==
    LET q == Fetched[n] IN
    /\ \E i \in 1..Len(sitemap.indexes.byExamAndTopic) :
          q \in Range(sitemap.indexes.byExamAndTopic[i][2])
    /\ SplitText(KeyHolding(n), <<":", ":">>) = <<q.exam, q.topic>>
    /\ \A m \in 1..Len(Fetched) :
          (HasExamAndTopic(Fetched[m]) /\ Admitted(Fetched[m])
              /\ <<Fetched[m].exam, Fetched[m].topic>> # <<q.exam, q.topic>>)
          => KeyHolding(m) # KeyHolding(n)
    /\ Len(TopicEntries(KeyHolding(n))) = 1
    /\ TopicEntries(KeyHolding(n))[1].loc
          = SITE_URL \o <<"/", "l", "e", "a", "r", "n", "/">> \o createSlug(q.exam) \o <<"/">> \o createSlug(q.topic)

\* neither name contains '::'
WithoutSeparator(q) == NoSeparator(q.exam) /\ NoSeparator(q.topic)

\* neither name contains '::' and the exam name does not end with ':'
WithoutSeparatorAtJoin(q) == WithoutSeparator(q) /\ ~EndsWithColon(q.exam)

C19_FetchedListUnchanged ==
    sitemap.ran =>
        /\ cachedArray = Fetched
        /\ laterSeen # <<>> => laterSeen = Fetched

(***************************************************************************)
(* Vocabulary of the sitemap document.                                     *)
(***************************************************************************)
SectionOrder == <<"seoLayer", "reactApp", "course", "metaTopic", "exam", "topic", "question">>

SectionRank(section) == CHOOSE r \in 1..Len(SectionOrder) : SectionOrder[r] = section

\* the things the entries of a section were made from, in document order
ItemsOf(section) ==
    LET entries == SelectSeq(sitemap.urls, LAMBDA u : u.section = section)
    IN  [i \in 1..Len(entries) |-> entries[i].item]

AllowListPosition(slug) == CHOOSE r \in 1..Len(CORE_COURSES) : CORE_COURSES[r] = slug

\* the sections follow each other in the fixed order
SectionsInOrder ==
    \A i \in 1..Len(sitemap.urls), j \in 1..Len(sitemap.urls) :
        i < j => SectionRank(sitemap.urls[i].section) <= SectionRank(sitemap.urls[j].section)

StaticPagesListed ==
    ItemsOf("seoLayer") = seoLayerPages /\ ItemsOf("reactApp") = reactAppPages

\* the curated courses of the allow-list, each once, in allow-list order
CoursesInAllowListOrder ==
    LET items == ItemsOf("course") IN
    /\ Range(items) = Range(CORE_COURSES) \cap DOMAIN metaData.courses
    /\ \A i \in 1..Len(items), j \in 1..Len(items) :
          i < j => AllowListPosition(items[i]) < AllowListPosition(items[j])

\* the curated topics whose path.split('/')[2] is a core course, in meta.json order
CoreTopicsOnly ==
    LET items == ItemsOf("metaTopic") IN
    /\ \A i \in 1..Len(items) : SplitText(items[i], <<"/">>)[3] \in Range(CORE_COURSES)
    /\ \A i \in 1..Len(metaData.topics) :
          LET segments == SplitText(metaData.topics[i], <<"/">>)
          IN  (Len(segments) >= 3 /\ segments[3] \in Range(CORE_COURSES))
                  => metaData.topics[i] \in Range(items)
    /\ Len(items) <= Len(metaData.topics)

OneEntryPerExam ==
    LET items == ItemsOf("exam") IN
    /\ Range(items) = {Fetched[n].exam : n \in {m \in 1..Len(Fetched) : HasExam(Fetched[m])}}
    /\ NoDuplicates(items)

OneEntryPerExamTopicKey ==
    LET items == ItemsOf("topic") IN
    /\ Range(items) = {ExamTopicKeyOf(Fetched[n]) : n \in {m \in 1..Len(Fetched) : HasExamAndTopic(Fetched[m])}}
    /\ NoDuplicates(items)

\* the question entries are in non-increasing order of updatedAt
QuestionsNewestFirst ==
    LET items == ItemsOf("question") IN
    \A i \in 1..Len(items), j \in 1..Len(items) :
        i < j => items[i].updatedAt.time >= items[j].updatedAt.time

(***************************************************************************)
(* C20. The sitemap document lists its entries in the fixed section order  *)
(* static site pages, static app pages, curated course pages (core-course  *)
(* slugs only, in allow-list order), curated topic pages (only those whose *)
(* path's third segment is a core course), one entry per distinct exam     *)
(* name, one entry per distinct exam+topic key, then the question entries; *)
(* the question entries are in non-increasing order of updatedAt.          *)
(***************************************************************************)
C20_SectionsThenNewestFirst ==
    SitemapBuilt =>
        /\ SectionsInOrder
        /\ StaticPagesListed
        /\ CoursesInAllowListOrder
        /\ CoreTopicsOnly
        /\ OneEntryPerExam
        /\ OneEntryPerExamTopicKey
        /\ QuestionsNewestFirst

(***************************************************************************)
(* Vocabulary of the question entries.                                     *)
(***************************************************************************)
\* how many times x occurs in the sequence s
Occurrences(s, x) == Cardinality({i \in 1..Len(s) : s[i] = x})

\* the updatedAt of the question does not parse
Unparsable(q) == ~q.updatedAt.valid

\* SEO precomputation (line 46) fails for some fetched question
SeoPrecomputationThrows ==
    \E n \in 1..Len(Fetched) : generateKeywords(Fetched[n]).threw

(***************************************************************************)
(* C21. When the question entries of the sitemap are built, a question     *)
(* without SEO record or whose entry computation throws (an unparsable     *)
(* updatedAt) contributes no entry, every other question of the batch      *)
(* contributes exactly one entry, and the handler does not abort.          *)
(***************************************************************************)
C21_BadEntryDropped ==
    sitemap.ran =>
        /\ sitemap.threw => SeoPrecomputationThrows
        /\ ~sitemap.threw =>
              \A q \in SitemapQuestions :
                  Occurrences(ItemsOf("question"), q)
                      = IF Unparsable(q) THEN 0 ELSE Occurrences(Fetched, q)

\* a list with an unparsable updatedAt between two good questions, one of them twice
C21_Witness ==
    /\ SitemapBuilt
    /\ Len(Fetched) = 3
    /\ Unparsable(Fetched[2])
    /\ ~Unparsable(Fetched[1])
    /\ Fetched[3] = Fetched[1]
    /\ Len(ItemsOf("question")) = 2

(***************************************************************************)
(* Vocabulary of the handler on top of the fetcher.                        *)
(***************************************************************************)
\* the handler resumed from the await of its fetchAllQuestions() call
Resumed == handler.phase # "idle"

\* the fetch whose promise the handler awaited, 0 when it was served the cached list
AwaitedFetch == calls[handler.call].fetch

(***************************************************************************)
(* C22. If fetchAllQuestions rejects (failed or malformed page) the GET    *)
(* handler rejects with that error and returns no Response: a sitemap      *)
(* built from a partial question list is never emitted.                    *)
(***************************************************************************)
C22_NoPartialSitemap ==
    Resumed =>
        /\ (AwaitedFetch # 0 /\ fetches[AwaitedFetch].status = "rejected") =>
              /\ handler.phase = "rejected"
              /\ handler.error = fetches[AwaitedFetch].error
              /\ handler.error \in {"httpError", "invalidFormat"}
        /\ handler.phase = "responded" => handler.list = FirstN(backendN)

\* the fetch failed on its second page, after a full first page had been collected
C22_Witness ==
    /\ handler.phase = "rejected"
    /\ AwaitedFetch # 0
    /\ fetches[AwaitedFetch].status = "rejected"
    /\ fetches[AwaitedFetch].page = 2
    /\ ListLen(fetches[AwaitedFetch].allQuestions) = limit
    /\ handler.error = "invalidFormat"

(***************************************************************************)
(* Vocabulary of the image-statement classification.                       *)
(***************************************************************************)
\* buildBaseSlug takes the statement for an image reference (lines 142-148)
ClassifiedAsImage(q) == isImageUrl(q.statement)

\* the text a generator is to work from: the statement, or the synthesized one
TextFor(q, synthesized) ==
    IF ClassifiedAsImage(q) THEN Interpolate(q, "topic") \o synthesized ELSE q.statement

(***************************************************************************)
(* C23. The image-statement classification is the same in every SEO        *)
(* generator: for every statement buildBaseSlug classifies as an image     *)
(* reference, generateTitle, generateDescription and generateSchema use    *)
(* their synthesized '<topic> Question' / visual-question text instead of  *)
(* the raw statement, and for every statement it classifies as text they   *)
(* use the statement.                                                      *)
(***************************************************************************)
C23_SameClassification ==
    /\ SeoCall({"generateTitle"}) =>
          LET text == TextFor(seoInput, <<" ", "Q", "u", "e", "s", "t", "i", "o", "n">>)
          IN  Len(text) <= MaxStatementLength(seoInput)
                  => seo.out = text \o TitleSuffix(seoInput)
    /\ SeoCall({"generateDescription"}) =>
          startsWith(seo.out, IF ClassifiedAsImage(seoInput)
                              THEN Interpolate(seoInput, "topic") \o <<" ", "v", "i", "s", "u", "a", "l", " ", "q", "u", "e", "s", "t", "i", "o", "n", ".", " ">>
                              ELSE seoInput.statement \o <<" ">>)
    /\ SeoCall({"generateSchema"}) =>
          seo.out.name = substring0(TextFor(seoInput, <<" ", "Q", "u", "e", "s", "t", "i", "o", "n">>), 100)

(***************************************************************************)
(* Vocabulary of the description.                                          *)
(***************************************************************************)
\* the positions of the options that may be shown: text type (or no type), content a
\* non-empty string that does not start with http
Eligible(q) ==
    {i \in 1..Len(q.options) :
        /\ q.options[i].type \in {<<>>, <<"t", "e", "x", "t">>}
        /\ q.options[i].content.kind = "string"
        /\ q.options[i].content.text # <<>>
        /\ ~startsWith(q.options[i].content.text, <<"h", "t", "t", "p">>)}

\* how many eligible options stand at or before position i
RankOf(q, i) == Cardinality({j \in Eligible(q) : j <= i})

\* the first five eligible options
Shown(q) == {i \in Eligible(q) : RankOf(q, i) <= 5}

\* the shown options in their original order, labelled A), B), C), ...
LabelledOptions(q) ==
    [k \in 1..Cardinality(Shown(q)) |->
        <<UpperSeq[k], ")", " ">>
            \o q.options[CHOOSE i \in Shown(q) : RankOf(q, i) = k].content.text]

endsWith(s, p) == Len(p) <= Len(s) /\ SubSeq(s, Len(s) - Len(p) + 1, Len(s)) = p

(***************************************************************************)
(* C24. For a question of type MCQ or Multiple Correct generateDescription *)
(* includes at most 5 options, each of text type with non-empty content    *)
(* not starting with http, in their original relative order and labelled   *)
(* A), B), C), ... consecutively; for type Integer it includes the         *)
(* sentence 'Answer type: Integer.' and no options; for every type the     *)
(* description ends with the fixed call-to-action sentence.                *)
(***************************************************************************)
C24_DescriptionOptions ==
    SeoCall({"generateDescription"}) =>
        LET q == seoInput
            around(part) == DescriptionLead(q) \o part \o DescriptionContext(q)
                                \o <<"S", "o", "l", "v", "e", " ", "a", "n", "d", " ", "g", "e", "t", " ", "s", "t", "e", "p", "-", "b", "y", "-", "s", "t", "e", "p", " ", "s", "o", "l", "u", "t", "i", "o", "n", ".">>
        IN  /\ endsWith(seo.out, <<"S", "o", "l", "v", "e", " ", "a", "n", "d", " ", "g", "e", "t", " ", "s", "t", "e", "p", "-", "b", "y", "-", "s", "t", "e", "p", " ", "s", "o", "l", "u", "t", "i", "o", "n", ".">>)
            /\ q.type \in {<<"M", "C", "Q">>, <<"M", "u", "l", "t", "i", "p", "l", "e", " ", "C", "o", "r", "r", "e", "c", "t">>} =>
                  seo.out = around(IF Shown(q) = {} THEN <<>>
                                   ELSE <<"O", "p", "t", "i", "o", "n", "s", ":", " ">> \o join(LabelledOptions(q), <<" ">>) \o <<".", " ">>)
            /\ q.type = <<"I", "n", "t", "e", "g", "e", "r">> => seo.out = around(<<"A", "n", "s", "w", "e", "r", " ", "t", "y", "p", "e", ":", " ", "I", "n", "t", "e", "g", "e", "r", ".", " ">>)

\* a Multiple Correct question with six eligible options after an ineligible one
C24_Witness ==
    /\ SeoCall({"generateDescription"})
    /\ seoInput.type = <<"M", "u", "l", "t", "i", "p", "l", "e", " ", "C", "o", "r", "r", "e", "c", "t">>
    /\ Cardinality(Eligible(seoInput)) = 6
    /\ 1 \notin Eligible(seoInput)
    /\ Cardinality(Shown(seoInput)) = 5

(***************************************************************************)
(* C25. For every question the base slug built by buildBaseSlug has at     *)
(* most 143 characters (50 for the statement part, 30 each for exam,       *)
(* sub-exam and topic, plus separators), so the branch that truncates to   *)
(* 180 characters and appends -q<questionNumber> is never taken.           *)
(***************************************************************************)
C25_SlugAtMost143 ==
    SeoCall({"buildBaseSlug"}) => Len(seo.out) <= 50 + 30 + 30 + 30 + 3

\* every part is cut at its cap and the bound is met
C25_Witness ==
    /\ SeoCall({"buildBaseSlug"})
    /\ Len(seoInput.statement) > 200
    /\ Len(seoInput.exam) > 30
    /\ Len(seoInput.subExam) > 30
    /\ Len(seoInput.topic) > 30
    /\ Len(seo.out) = 143

(***************************************************************************)
(* C26. Against a backend that holds a finite number N of questions and    *)
(* answers every page request successfully, an uncapped fetchAllQuestions  *)
(* call always terminates, after exactly floor(N/1000) + 1 page requests   *)
(* (one extra request that returns an empty page when N is a multiple of   *)
(* 1000, including N = 0).                                                 *)
(***************************************************************************)
C26_RequestCount ==
    \A f \in FetchIds :
        Uncapped(f) =>
            /\ Len(fetches[f].requested) <= backendN \div 1000 + 1
            /\ fetches[f].status = "fulfilled"
                  => Len(fetches[f].requested) = backendN \div 1000 + 1
            /\ fetches[f].status # "rejected"

C26_Terminates ==
    /\ []C26_RequestCount
    /\ \A f \in 1..MaxFetches :
          (f \in FetchIds /\ Uncapped(f)) ~> (f \in FetchIds /\ fetches[f].status = "fulfilled")

\* a backend of two full pages was fetched with a third request that came back empty
C26_Witness ==
    \E f \in FetchIds :
        /\ Uncapped(f)
        /\ backendN = 2 * 1000
        /\ fetches[f].status = "fulfilled"
        /\ Len(fetches[f].requested) = 3
        /\ fetches[f].page = 4

(***************************************************************************)
(* Vocabulary of the entries' locations.                                   *)
(***************************************************************************)
\* entries i and j of the document were made from the same thing: the same page, path,
\* exam name or key, or a question with the same questionNumber
SameSource(i, j) ==
    LET a == sitemap.urls[i]
        b == sitemap.urls[j]
    IN  /\ a.section = b.section
        /\ IF a.section = "question"
           THEN a.item.questionNumber = b.item.questionNumber
           ELSE a.item = b.item

(***************************************************************************)
(* C27. No two <url> entries of the generated sitemap have the same <loc>: *)
(* the URLs produced for distinct exam names, distinct exam+topic keys,    *)
(* curated course/topic paths and distinct questions are pairwise          *)
(* different.                                                              *)
(***************************************************************************)
C27_LocsDistinct ==
    SitemapBuilt =>
        \A i \in 1..Len(sitemap.urls), j \in 1..Len(sitemap.urls) :
            (i # j /\ ~SameSource(i, j)) => sitemap.urls[i].loc # sitemap.urls[j].loc

(***************************************************************************)
(* C28. A call fetchAllQuestions(0) is treated exactly like a call with no *)
(* cap: it returns the cached list or the in-flight promise when one       *)
(* exists, otherwise it fetches every page, returns all questions          *)
(* untrimmed, and stores the result in questionsCache and the promise in   *)
(* fetchPromise.                                                           *)
(***************************************************************************)
C28_ZeroIsNoCap ==
    \A i \in CallIds :
        calls[i].maxQuestions = Arg(0) =>
            IF calls[i].cacheSeen
            THEN calls[i].via = "cache" /\ calls[i].list = FirstN(backendN)
            ELSE IF calls[i].promiseSeen # NullPromise
            THEN calls[i].via = "promise" /\ calls[i].fetch = calls[i].promiseSeen
            ELSE LET f == calls[i].fetch IN
                 /\ calls[i].via = "fetchLogic"
                 /\ fetches[f].requested = UpTo(Len(fetches[f].requested))
                 /\ InFlight(f) => fetchPromise = f
                 /\ fetches[f].status = "fulfilled" =>
                       /\ fetches[f].result = FirstN(backendN)
                       /\ Len(fetches[f].requested) = backendN \div limit + 1
                       /\ questionsCache = [isSet |-> TRUE, value |-> FirstN(backendN)]

\* three calls with cap 0: one fetches two pages, one joins it, one is served the cache
C28_Witness ==
    /\ Len(calls) = 3
    /\ \A i \in CallIds : calls[i].maxQuestions = Arg(0)
    /\ calls[1].via = "fetchLogic"
    /\ calls[2].via = "promise"
    /\ calls[3].via = "cache"
    /\ backendN = limit + 1
    /\ calls[3].list = FirstN(backendN)

=============================================================================
